---- MODULE Spec2Model ----
(***************************************************************************)
(* Taxonomy import engine of Guardian (schema package): the VRT / CVSS /   *)
(* CWE import functions of src/__init__.py and the lookups they rest on    *)
(* (src/tagging/bugcrowd_vrt.py, src/tagging/cvss.py,                      *)
(* src/tagging/mitre_cwe.py, src/tagging/vrt_cwe_mapping.py).              *)
(*                                                                         *)
(* A database is a record of tables, each table a set of rows.  A row that *)
(* the schema does not force to be unique carries a "dup" index, so that   *)
(* two rows with the same natural key are two rows of the model as well.   *)
(* Every import function opens its own session, works on a private copy of *)
(* the committed database and commits once, at its end; an exception       *)
(* leaves the committed database as it was.                                *)
(***************************************************************************)
EXTENDS Integers, Sequences, FiniteSets, TLC

VARIABLES
    db,       \* the committed database
    before,   \* the committed database before the last operation
    op,       \* the last operation: "none", "weak", "cat", "vrt", "init", "probe"
    arg,      \* the input (source files) of the last operation
    err,      \* the exception the last operation ended with, "none" if it returned
    warn,     \* the warnings the last operation logged
    mem,      \* Vrt.cwes collections held by the last operation's session
    runs,     \* number of operations so far
    rep,      \* TRUE when the last operation repeated the one before, same input
    origin,   \* full runs: the failed run that the last run retried, or NoRun
    probe     \* pure functions: the call made and its result

vars == <<db, before, op, arg, err, warn, mem, runs, rep, origin, probe>>

---------------------------------------------------------------------------
(* Bounds *)

\* operations per behaviour
MaxRuns == 2
\* leaf priorities of the source trees range over 0..MaxPriority and null
MaxPriority == 1
\* entries with the requested id in one sibling list of a side file
MaxSiblings == 2
\* Vrt rows in a database that get_vrt is asked about
MaxLeaves == 2
\* create_cvss_v3 calls in a row
MaxCalls == 3
\* imports in a row, of VRT files and of weakness catalogs in any order
MaxSteps == 3
\* the highest base score, in tenths
MaxScore == 100

---------------------------------------------------------------------------
(* Values *)

\* Python None / SQL NULL for a string-valued place
Null == "NULL"
\* Python None / SQL NULL for an integer- or row-valued place: the empty set;
\* a value x there is {x}
Nothing == {}
Some(x) == {x}
The(o) == CHOOSE x \in o : TRUE

\* JSON values of the side files
JNull == [t |-> "null"]
JStr(s) == [t |-> "str", v |-> s]
JList(q) == [t |-> "list", v |-> q]

\* Python truthiness of a JSON value
\* (a string is the sequence of its "/"-separated segments, "" is << >>)
Truthy(j) ==
    CASE j.t = "null" -> FALSE
      [] j.t = "str" -> j.v # << >>
      [] j.t = "list" -> j.v # << >>

\* Python truthiness of an int | None
TruthyInt(p) == p # Nothing /\ p # Some(0)

\* Python truthiness of a str | None
TruthyStr(x) == x # Null /\ x # ""

\* dict.get(key)
Get(entry, key) == IF key \in DOMAIN entry THEN entry[key] ELSE JNull

\* [item for item in items if item["id"] == id]
Matching(items, id) == SelectSeq(items, LAMBDA item : item.id = id)

Return(v) == [err |-> "none", val |-> v]
Raise(e) == [err |-> e, val |-> JNull]

---------------------------------------------------------------------------
(* get_vrt_mapping *)

\* a fallback that forgets the ancestor's value
OwnValueOnly(own, inherited) == own

\* x if x else y
Fallback(own, inherited) == IF Truthy(own) THEN own ELSE inherited

\* a duplicate check that takes the first match
FirstOfMany(matches) == FALSE

\* len(matches) > 1
Ambiguous(matches) == Len(matches) > 1

variant_level(sub_category, sub_category_vector, vrt_variant, key) ==
    IF "children" \notin DOMAIN sub_category
    THEN Return(sub_category_vector)
    ELSE LET variant == Matching(sub_category.children, vrt_variant) IN
         IF Ambiguous(variant) THEN Raise("MultipleResultsFound")
         ELSE IF Len(variant) = 0 THEN Return(sub_category_vector)
         ELSE Return(Fallback(Get(variant[1], key), sub_category_vector))

\* a search below the category that gives nothing
lost_sub_category_level(category, category_vector, vrt_sub_category, vrt_variant, key) ==
    Return(JNull)

sub_category_level(category, category_vector, vrt_sub_category, vrt_variant, key) ==
    IF "children" \notin DOMAIN category
    THEN Return(category_vector)
    ELSE LET sub_category == Matching(category.children, vrt_sub_category) IN
         IF Ambiguous(sub_category) THEN Raise("MultipleResultsFound")
         ELSE IF Len(sub_category) = 0 THEN Return(category_vector)
         ELSE LET sub_category_vector ==
                      Fallback(Get(sub_category[1], key), category_vector)
              IN  IF vrt_variant # Null
                  THEN variant_level(sub_category[1], sub_category_vector,
                                     vrt_variant, key)
                  ELSE Return(sub_category_vector)

get_vrt_mapping(json_object, vrt_category, vrt_sub_category, vrt_variant, key) ==
    LET category == Matching(json_object, vrt_category) IN
    IF Ambiguous(category) THEN Raise("MultipleResultsFound")
    ELSE IF Len(category) = 0 THEN Return(JNull)
    ELSE LET category_vector == Get(category[1], key) IN
         IF vrt_sub_category # Null
         THEN sub_category_level(category[1], category_vector,
                                 vrt_sub_category, vrt_variant, key)
         ELSE Return(category_vector)

---------------------------------------------------------------------------
(* The database *)

EmptyDb ==
    [country |-> {}, cwebase |-> {}, cwerelationship |-> {},
     vrtcategory |-> {}, vrtsubcategory |-> {}, vrtvariant |-> {},
     vrt |-> {}, cvss |-> {}, vrtcwemapping |-> {}]

\* A session: the working copy d of the database, the exception that ended
\* it, the warnings logged and the Vrt.cwes collections it has loaded.
NoMem == [x \in {} |-> << >>]
\* pend: the CWE rows added to the session and not yet flushed; the session is
\* created with autoflush=False, so a query does not see them
NoPending == [cwebase |-> {}, cwerelationship |-> {}]
Session(d) ==
    [d |-> d, err |-> "none", warn |-> << >>, mem |-> NoMem, pend |-> NoPending]
Fail(S, e) == [S EXCEPT !.err = e]
Ok(S) == S.err = "none"

\* primary key of a Vrt row (the model's stand-in for its UUID)
LeafId(l) ==
    [category |-> l.category, sub_category |-> l.sub_category,
     variant |-> l.variant, priority |-> l.priority, dup |-> l.dup]

LeafKey(l) == <<l.category, l.sub_category, l.variant, l.priority>>

\* primary key of a CweBase row
NodeId(n) == [kind |-> n.kind, cwe_id |-> n.cwe_id, dup |-> n.dup]

\* UNIQUE (category_id, sub_category_id, variant_id, priority) with the
\* default SQL semantics: a NULL in the key never collides
NullsDistinctCollision(a, b) ==
    /\ LeafKey(a) = LeafKey(b)
    /\ a.sub_category # Null /\ a.variant # Null /\ a.priority # Nothing

\* UNIQUE NULLS NOT DISTINCT (category_id, sub_category_id, variant_id, priority)
VrtKeyCollision(a, b) == LeafKey(a) = LeafKey(b)

\* Field(unique=True) on vrt_id and on name
NodeCollision(a, b) == a.vrt_id = b.vrt_id \/ a.name = b.name

---------------------------------------------------------------------------
(* Cvss: src/tagging/cvss.py *)

\* str.lower() of the first segment of the vectors the source files hold
Lower(seg) ==
    CASE seg = "CVSS:3.1" -> "cvss:3.1"
      [] seg = "CVSS:3.0" -> "cvss:3.0"
      [] seg = "CVSS:4.0" -> "cvss:4.0"
      [] OTHER -> seg

\* a test that takes no vector for a CVSS 3 vector
NeverStartsWithCvss3(vector) == FALSE

\* vector.lower().startswith("cvss:3")
StartsWithCvss3(vector) ==
    vector # << >> /\ Lower(vector[1]) \in {"cvss:3.1", "cvss:3.0"}

\* The base metrics the source files use, with the base score (in tenths)
\* that the CVSS 3 formula gives them.
MetricsHigh == "AV:N/AC:L/PR:N/UI:N/S:U/C:H/I:H/A:H"
MetricsMedium == "AV:N/AC:L/PR:N/UI:R/S:C/C:L/I:L/A:N"
MetricsNone == "AV:N/AC:L/PR:N/UI:N/S:U/C:N/I:N/A:N"

CVSS3 ==
    (MetricsHigh :> 98) @@ (MetricsMedium :> 61) @@ (MetricsNone :> 0)

\* float(CVSS3(vector).base_score) for a vector that starts with cvss:3; the
\* library accepts the prefixes CVSS:3.0/ and CVSS:3.1/ followed by metrics
calculate_base_score(vector) ==
    IF /\ Len(vector) = 2
       /\ vector[1] \in {"CVSS:3.0", "CVSS:3.1"}
       /\ vector[2] \in DOMAIN CVSS3
    THEN Return(CVSS3[vector[2]])
    ELSE Raise("CVSS3MalformedError")

\* brackets that close at their upper end
closed_base_severity(result) ==
    IF result = 0 THEN Null
    ELSE IF result <= 40 THEN "low"
    ELSE IF result <= 70 THEN "medium"
    ELSE IF result <= 90 THEN "high"
    ELSE "critical"

calculate_base_severity(result) ==
    IF result = 0 THEN Null
    ELSE IF result < 40 THEN "low"
    ELSE IF result < 70 THEN "medium"
    ELSE IF result < 90 THEN "high"
    ELSE "critical"

\* Cvss.create_cvss3: [err, val], val the new Cvss object or Nothing
create_cvss3(vector) ==
    IF ~Truthy(vector) THEN Return(Nothing)
    ELSE LET result == IF StartsWithCvss3(vector.v)
                       THEN vector.v
                       ELSE <<"CVSS:3.1">> \o vector.v
             base_score == calculate_base_score(result)
         IN  IF base_score.err # "none" THEN Raise(base_score.err)
             ELSE Return(Some([base_score |-> base_score.val,
                               base_severity |->
                                   calculate_base_severity(base_score.val),
                               base_vector |-> result, dup |-> 0]))

\* primary key of a Cvss row
CvssId(c) == [base_vector |-> c.base_vector, dup |-> c.dup]

\* Field(unique=True) on base_vector
CvssCollision(a, b) == a.base_vector = b.base_vector

\* a lookup that never finds the row
find_no_cvss(S, base_vector) == {}

\* session.query(Cvss).filter_by(base_vector=cvss.base_vector)
find_cvss(S, base_vector) == {r \in S.d.cvss : r.base_vector = base_vector}

\* create_cvss_v3: [S, result], result the id of the row or Nothing; session
\* is S, cvss the object create_cvss3 made, found the rows of the query
create_cvss_v3(S, cvss_v3_vector) ==
    LET made == create_cvss3(cvss_v3_vector) IN
    IF made.err # "none" THEN [S |-> Fail(S, made.err), result |-> Nothing]
    ELSE IF made.val = Nothing THEN [S |-> S, result |-> Nothing]
    ELSE The({
        IF Cardinality(found) > 1
        THEN [S |-> Fail(session, "MultipleResultsFound"), result |-> Nothing]
        ELSE IF found # {}
        THEN [S |-> [session EXCEPT !.d.cvss =
                        (@ \ found) \cup
                            {[result EXCEPT
                                 !.base_severity = cvss.base_severity,
                                 !.base_score = cvss.base_score] :
                             result \in found}],
              result |-> Some(CvssId(The(found)))]
        ELSE IF \E r \in session.d.cvss : CvssCollision(r, cvss)
        THEN [S |-> Fail(session, "IntegrityError"), result |-> Nothing]
        ELSE [S |-> [session EXCEPT !.d.cvss = @ \cup {cvss}],
              result |-> Some(CvssId(cvss))] :
        <<session, cvss, found>> \in
            {<<session, cvss, find_cvss(session, cvss.base_vector)>> :
                 <<session, cvss>> \in {S} \X made.val} })

---------------------------------------------------------------------------
(* get_vrt: src/tagging/bugcrowd_vrt.py *)

\* Vrt.priority == priority if priority else Vrt.priority.is_(None)
priority_filter(l, priority) ==
    IF TruthyInt(priority) THEN l.priority = priority ELSE l.priority = Nothing

\* .join(VrtCategory) ... VrtCategory.vrt_id == category_id
JoinCategory(d, l, category_id) ==
    l.category = category_id /\ \E r \in d.vrtcategory : r.vrt_id = l.category

JoinSubCategory(d, l, sub_category_id) ==
    /\ l.sub_category = sub_category_id
    /\ \E r \in d.vrtsubcategory : r.vrt_id = l.sub_category

JoinVariant(d, l, variant_id) ==
    l.variant = variant_id /\ \E r \in d.vrtvariant : r.vrt_id = l.variant

\* [err, val]: val the set of rows the returned query selects
get_vrt(d, category_id, sub_category_id, variant_id, priority) ==
    IF TruthyStr(category_id) /\ TruthyStr(sub_category_id) /\ TruthyStr(variant_id)
    THEN Return({l \in d.vrt : /\ JoinCategory(d, l, category_id)
                               /\ JoinSubCategory(d, l, sub_category_id)
                               /\ JoinVariant(d, l, variant_id)
                               /\ priority_filter(l, priority)})
    ELSE IF TruthyStr(category_id) /\ TruthyStr(sub_category_id)
    THEN Return({l \in d.vrt : /\ JoinCategory(d, l, category_id)
                               /\ JoinSubCategory(d, l, sub_category_id)
                               /\ l.variant = Null
                               /\ priority_filter(l, priority)})
    ELSE IF TruthyStr(category_id)
    THEN Return({l \in d.vrt : /\ JoinCategory(d, l, category_id)
                               /\ l.sub_category = Null
                               /\ l.variant = Null
                               /\ priority_filter(l, priority)})
    ELSE Raise("ValueError")

---------------------------------------------------------------------------
(* _create_vrt: src/__init__.py *)

RECURSIVE SetToSeq(_)
SetToSeq(set) ==
    IF set = {} THEN << >>
    ELSE LET x == CHOOSE y \in set : TRUE IN <<x>> \o SetToSeq(set \ {x})

InSeq(x, q) == \E i \in 1..Len(q) : q[i] = x

\* vrt.cwes: the collection the session holds, loaded on first access
cwes_of(S, vrt) ==
    IF vrt \in DOMAIN S.mem THEN S.mem[vrt]
    ELSE SetToSeq({m.cwe_base_id : m \in {x \in S.d.vrtcwemapping : x.vrt_id = vrt}})

\* vrt.cwes.append(cwe); session.flush(): the unit of work inserts a link row
\* for each item that the collection did not hold before the change
append_cwe(S, vrt, cwe) ==
    LET old == cwes_of(S, vrt)
        added == IF InSeq(cwe, old) THEN {}
                 ELSE {[cwe_base_id |-> cwe, vrt_id |-> vrt]}
    IN  IF added \cap S.d.vrtcwemapping # {}
        THEN Fail(S, "IntegrityError")
        ELSE [S EXCEPT !.mem = (vrt :> Append(old, cwe)) @@ S.mem,
                       !.d.vrtcwemapping = @ \cup added]

\* re.match(r"^CWE-(?P<id>\d+)$", item, flags=re.IGNORECASE); a token of the
\* side file is a prefix and a number
cwe_match(item) == item.prefix \in {"CWE-", "cwe-"}

Warning(S, text, cwe_id) ==
    [S EXCEPT !.warn = Append(@, [text |-> text, cwe_id |-> cwe_id])]

\* a query over the nodes of every kind
query_CweBase(S, cwe_id) == {n \in S.d.cwebase : n.cwe_id = cwe_id}

\* session.query(CweWeakness).filter_by(cwe_id=cwe_id).all()
query_CweWeakness(S, cwe_id) ==
    {n \in S.d.cwebase : n.kind = "weakness" /\ n.cwe_id = cwe_id}

\* the body of "for item in (items or [])"
link_cwe(S, vrt, item) ==
    IF ~cwe_match(item) THEN S
    ELSE LET cwes == query_CweWeakness(S, item.id)
         IN  IF cwes # {}
             THEN IF Cardinality(cwes) > 1
                  THEN Warning(S, "exists more than once", item.id)
                  ELSE IF Cardinality(cwes) = 1
                  THEN append_cwe(S, vrt, NodeId(The(cwes)))
                  ELSE Warning(S, "not found", item.id)
             ELSE S

RECURSIVE link_cwes(_, _, _)
link_cwes(S, vrt, items) ==
    IF items = << >> \/ ~Ok(S) THEN S
    ELSE link_cwes(link_cwe(S, vrt, Head(items)), vrt, Tail(items))

\* "Create/update the VRT record": [S, vrt], vrt the id of the leaf
upsert_vrt(S, category, sub_category, variant, priority, result) ==
    LET q == get_vrt(S.d, category, sub_category, variant, priority) IN
    IF q.err # "none" THEN [S |-> Fail(S, q.err), vrt |-> Nothing]
    ELSE IF Cardinality(q.val) > 1
    THEN [S |-> Fail(S, "MultipleResultsFound"), vrt |-> Nothing]
    ELSE IF q.val # {}
    THEN LET vrt == The(q.val) IN
         [S |-> [S EXCEPT !.d.vrt = (@ \ {vrt}) \cup {[vrt EXCEPT !.cvss = result]}],
          vrt |-> Some(LeafId(vrt))]
    ELSE LET key == [category |-> category, sub_category |-> sub_category,
                     variant |-> variant, priority |-> priority]
             same == {l \in S.d.vrt : LeafKey(l) = LeafKey(key)}
             vrt == [category |-> category, sub_category |-> sub_category,
                     variant |-> variant, priority |-> priority,
                     dup |-> Cardinality(same), cvss |-> result]
         IN  IF \E l \in S.d.vrt : VrtKeyCollision(l, vrt)
             THEN [S |-> Fail(S, "IntegrityError"), vrt |-> Nothing]
             ELSE [S |-> [S EXCEPT !.d.vrt = @ \cup {vrt}],
                   vrt |-> Some(LeafId(vrt))]

\* "Create/update the CVSS record if available": [S, result]
resolve_cvss(S, category, sub_category, variant, cvss_object) ==
    IF cvss_object = << >> THEN [S |-> S, result |-> Nothing]
    ELSE LET cvss_v3_vector ==
                 get_vrt_mapping(cvss_object, category, sub_category, variant,
                                 "cvss_v3")
         IN  IF cvss_v3_vector.err # "none"
             THEN [S |-> Fail(S, cvss_v3_vector.err), result |-> Nothing]
             ELSE create_cvss_v3(S, cvss_v3_vector.val)

resolve_cwes(S, vrt, category, sub_category, variant, cwe_object) ==
    IF cwe_object = << >> THEN S
    ELSE LET items == get_vrt_mapping(cwe_object, category, sub_category,
                                      variant, "cwe")
         IN  IF items.err # "none" THEN Fail(S, items.err)
             ELSE link_cwes(S, vrt, IF Truthy(items.val) THEN items.val.v ELSE << >>)

_create_vrt(S, category, sub_category, variant, priority, cvss_object, cwe_object) ==
    LET c == resolve_cvss(S, category, sub_category, variant, cvss_object) IN
    IF ~Ok(c.S) THEN c.S
    ELSE LET u == upsert_vrt(c.S, category, sub_category, variant, priority,
                             c.result)
         IN  IF ~Ok(u.S) THEN u.S
             ELSE resolve_cwes(u.S, The(u.vrt), category, sub_category, variant,
                               cwe_object)

---------------------------------------------------------------------------
(* import_vrt_categories: src/__init__.py *)

\* a row that keeps the name it was created with
keep_node(S, table, node) ==
    IF \E r \in S.d[table] : r.vrt_id = node.vrt_id THEN S
    ELSE [S EXCEPT !.d[table] =
             @ \cup {[vrt_id |-> node.vrt_id, name |-> node.name]}]

\* session.query(T).filter_by(vrt_id=node.vrt_id).one_or_none(), then update
\* the name or add a new row (T is vrtcategory, vrtsubcategory or vrtvariant)
upsert_node(S, table, node) ==
    LET found == {r \in S.d[table] : r.vrt_id = node.vrt_id}
        row == [vrt_id |-> node.vrt_id, name |-> node.name]
    IN  IF Cardinality(found) > 1 THEN Fail(S, "MultipleResultsFound")
        ELSE IF \E r \in S.d[table] \ found : NodeCollision(r, row)
        THEN Fail(S, "IntegrityError")
        ELSE [S EXCEPT !.d[table] = (@ \ found) \cup {row}]

RECURSIVE import_variants(_, _, _, _, _, _)
import_variants(S, variants, category, sub_category, cvss_object, cwe_object) ==
    IF variants = << >> \/ ~Ok(S) THEN S
    ELSE LET variant == Head(variants)
             S1 == upsert_node(S, "vrtvariant", variant)
             S2 == IF ~Ok(S1) THEN S1
                   ELSE _create_vrt(S1, category.vrt_id, sub_category.vrt_id,
                                    variant.vrt_id, variant.priority,
                                    cvss_object, cwe_object)
         IN  import_variants(S2, Tail(variants), category, sub_category,
                             cvss_object, cwe_object)

RECURSIVE import_sub_categories(_, _, _, _, _)
import_sub_categories(S, sub_categories, category, cvss_object, cwe_object) ==
    IF sub_categories = << >> \/ ~Ok(S) THEN S
    ELSE LET sub_category == Head(sub_categories)
             S1 == upsert_node(S, "vrtsubcategory", sub_category)
             S2 == IF ~Ok(S1) THEN S1
                   ELSE IF sub_category.children # << >>
                   THEN import_variants(S1, sub_category.children, category,
                                        sub_category, cvss_object, cwe_object)
                   ELSE _create_vrt(S1, category.vrt_id, sub_category.vrt_id,
                                    Null, sub_category.priority,
                                    cvss_object, cwe_object)
         IN  import_sub_categories(S2, Tail(sub_categories), category,
                                   cvss_object, cwe_object)

\* if category.priority: raise ValueError("Category priority must be None.")
PriorityRejected(category) == TruthyInt(category.priority)

RECURSIVE import_categories(_, _, _, _)
import_categories(S, categories, cvss_object, cwe_object) ==
    IF categories = << >> \/ ~Ok(S) THEN S
    ELSE LET category == Head(categories)
             S1 == IF PriorityRejected(category) THEN Fail(S, "ValueError")
                   ELSE upsert_node(S, "vrtcategory", category)
             S2 == IF ~Ok(S1) THEN S1
                   ELSE IF category.children # << >>
                   THEN import_sub_categories(S1, category.children, category,
                                              cvss_object, cwe_object)
                   ELSE _create_vrt(S1, category.vrt_id, Null, Null, Nothing,
                                    cvss_object, cwe_object)
         IN  import_categories(S2, Tail(categories), cvss_object, cwe_object)

\* the session of one call; files = [vrt_file, vrt_cvss_v3_file, vrt_cwe_file],
\* each the parsed JSON document
import_vrt_session(d, files) ==
    LET json_object == files.vrt_file
        cvss_object == IF "content" \in DOMAIN files.vrt_cvss_v3_file
                       THEN files.vrt_cvss_v3_file.content ELSE << >>
        cwe_object == IF "content" \in DOMAIN files.vrt_cwe_file
                      THEN files.vrt_cwe_file.content ELSE << >>
    IN  IF "content" \in DOMAIN json_object
        THEN import_categories(Session(d), json_object.content, cvss_object,
                               cwe_object)
        ELSE Session(d)


---------------------------------------------------------------------------
(* Sessions: flush and commit *)

\* a table without the constraint on its edges
NoEdgeCollision(a, b) == FALSE

\* UniqueConstraint("source_id", "destination_id") of cwerelationship
EdgeCollision(a, b) == a.source = b.source /\ a.destination = b.destination

\* session.flush(): the pending rows are inserted; a unique violation raises
flush(S) ==
    LET new == S.pend.cwerelationship
        old == S.d.cwerelationship
    IN  IF \E e \in new : \E f \in (old \cup new) \ {e} : EdgeCollision(e, f)
        THEN Fail(S, "IntegrityError")
        ELSE [S EXCEPT !.d.cwebase = @ \cup S.pend.cwebase,
                       !.d.cwerelationship = @ \cup new,
                       !.pend = NoPending]

\* a close that keeps what a failed session had flushed
CloseKeepingFlushed(d, S) ==
    [db |-> S.d, err |-> S.err, warn |-> S.warn, mem |-> S.mem]

\* session.commit() as the last statement of the "with SessionLocal()" block:
\* an exception before it, or in its flush, leaves the database as it was
Close(d, S) ==
    LET F == IF Ok(S) THEN flush(S) ELSE S IN
    [db |-> IF Ok(F) THEN F.d ELSE d, err |-> F.err, warn |-> F.warn,
     mem |-> F.mem]

import_vrt_categories(d, files) == Close(d, import_vrt_session(d, files))

---------------------------------------------------------------------------
(* CWE catalog: create_cwe_views, import_cwe_weaknesses, import_cwe_categories *)

\* str.lower() and str.replace("-", "_") on the texts of the catalog files
lower(text) ==
    CASE text = "Allowed" -> "allowed"
      [] text = "Prohibited" -> "prohibited"
      [] text = "Discouraged" -> "discouraged"
      [] text = "Allowed-with-Review" -> "allowed-with-review"
      [] text = "Allowed_with_Review" -> "allowed_with_review"
      [] text = "Draft" -> "draft"
      [] text = "Stable" -> "stable"
      [] text = "Deprecated" -> "deprecated"
      [] text = "Incomplete" -> "incomplete"
      [] text = "Obsolete" -> "obsolete"
      [] text = "Base" -> "base"
      [] text = "Variant" -> "variant"
      [] text = "Class" -> "class"
      [] text = "Pillar" -> "pillar"
      [] text = "Compound" -> "compound"
      [] OTHER -> text

replace_hyphen(text) ==
    IF text = "Allowed-with-Review" THEN "Allowed_with_Review" ELSE text

CweVulnerabilityMappingType ==
    {"allowed", "prohibited", "discouraged", "allowed_with_review"}
CweStatus == {"draft", "stable", "deprecated", "incomplete"}
CweAbstractionType == {"base", "variant", "class_", "pillar", "compound"}
CweCategoryStatus == {"draft", "incomplete", "obsolete"}

\* the three fixed views
ViewIds == {1000, 1194, 699}
ViewName(cwe_id) ==
    CASE cwe_id = 1000 -> "Research Concepts"
      [] cwe_id = 1194 -> "Hardware Design"
      [] cwe_id = 699 -> "Software Development"

CweView(cwe_id) ==
    [kind |-> "view", cwe_id |-> cwe_id, dup |-> 0, name |-> ViewName(cwe_id),
     version |-> Null, mapping |-> "prohibited", status |-> Null,
     abstraction |-> Null, text |-> "objective"]

\* a guard that lets every call insert
AnyTable(S) == TRUE

\* session.query(CweBase).count() == 0
EmptyCweBase(S) == S.d.cwebase = {}

create_cwe_views(S) ==
    IF EmptyCweBase(S)
    THEN [S EXCEPT !.d.cwebase =
             @ \cup {[CweView(v) EXCEPT
                         !.dup = Cardinality({n \in S.d.cwebase :
                                    n.kind = "view" /\ n.cwe_id = v})] :
                       v \in ViewIds}]
    ELSE S

\* rows of one kind with one cwe_id that a query sees
Nodes(S, kind, cwe_id) ==
    {n \in S.d.cwebase : n.kind = kind /\ n.cwe_id = cwe_id}

\* a new node of the session; its id counts the rows with the same kind and
\* cwe_id, flushed or not
NewNode(S, kind, cwe_id, fields) ==
    [kind |-> kind, cwe_id |-> cwe_id,
     dup |-> Cardinality({n \in S.d.cwebase \cup S.pend.cwebase :
                             n.kind = kind /\ n.cwe_id = cwe_id}),
     name |-> fields.name, version |-> fields.version,
     mapping |-> fields.mapping, status |-> fields.status,
     abstraction |-> fields.abstraction, text |-> fields.text]

\* an edge that runs from the parent to the child
ReversedEdge(S, nature, source, destination) ==
    [nature |-> nature, source |-> destination, destination |-> source,
     dup |-> Cardinality({e \in S.d.cwerelationship \cup S.pend.cwerelationship :
                             e.source = destination /\ e.destination = source})]

\* CweBaseRelationship(nature=..., source=..., destination=...)
NewEdge(S, nature, source, destination) ==
    [nature |-> nature, source |-> source, destination |-> destination,
     dup |-> Cardinality({e \in S.d.cwerelationship \cup S.pend.cwerelationship :
                             e.source = source /\ e.destination = destination})]

AddNode(S, n) == [S EXCEPT !.pend.cwebase = @ \cup {n}]
AddEdge(S, e) == [S EXCEPT !.pend.cwerelationship = @ \cup {e}]

\* a pattern that every header matches
HeaderAccepted(header) == TRUE

\* catalog_name_re.match(root.attrib.get("Name", "")); a header is the text
\* before the id, the id and the view name after ": "
HeaderMatches(header) == header.prefix = "VIEW LIST: CWE-" /\ header.name # ""

\* the parent view of a catalog file: [S, parent]
find_parent(S, file) ==
    IF ~HeaderMatches(file.Name)
    THEN [S |-> Fail(S, "ValueError"), parent |-> Nothing]
    ELSE LET views == Nodes(S, "view", file.Name.cwe) IN
         IF Cardinality(views) > 1
         THEN [S |-> Fail(S, "MultipleResultsFound"), parent |-> Nothing]
         ELSE IF views = {}
         THEN [S |-> Fail(S, "ValueError"), parent |-> Nothing]
         ELSE [S |-> S, parent |-> Some(NodeId(The(views)))]

\* session.query(CweWeakness).filter_by(cwe_id=item_id) of import_cwe_weaknesses
find_weakness(S, cwe_id) == Nodes(S, "weakness", cwe_id)

\* a weakness that takes the attributes of the catalog when it is met again
refreshed_weakness(weakness, item, version) ==
    [weakness EXCEPT !.name = item.Name, !.version = version,
                     !.text = item.Description]

\* "if not weakness" is false: the row is used as the query returned it
known_weakness(weakness, item, version) == weakness

\* a lookup that takes a weakness that exists for linked
any_edge(S, source_id, destination_id) == {<<source_id, destination_id>>}

\* session.query(CweBaseRelationship).filter_by(source_id=weakness.id,
\* destination_id=parent.id)
find_edge(S, source_id, destination_id) ==
    {e \in S.d.cwerelationship :
        e.source = source_id /\ e.destination = destination_id}

\* one <Weakness> of a file whose parent view is parent
import_weakness(S, item, version, parent) ==
    LET mapping == lower(replace_hyphen(item.Usage))
        abstraction_str == lower(item.Abstraction)
        abstraction == IF abstraction_str = "class" THEN "class_"
                       ELSE abstraction_str
        found == find_weakness(S, item.ID)
    IN  IF mapping \notin CweVulnerabilityMappingType THEN Fail(S, "KeyError")
        ELSE IF abstraction \notin CweAbstractionType THEN Fail(S, "KeyError")
        ELSE IF Cardinality(found) > 1 THEN Fail(S, "MultipleResultsFound")
        ELSE IF found = {}
        THEN IF lower(item.Status) \notin CweStatus THEN Fail(S, "KeyError")
             ELSE LET weakness ==
                          NewNode(S, "weakness", item.ID,
                                  [name |-> item.Name, version |-> version,
                                   mapping |-> mapping,
                                   status |-> lower(item.Status),
                                   abstraction |-> abstraction,
                                   text |-> item.Description])
                  IN  flush(AddEdge(AddNode(S, weakness),
                                    NewEdge(S, "member_of_primary",
                                            NodeId(weakness), parent)))
        ELSE LET weakness == NodeId(The(found))
                 edges == find_edge(S, weakness, parent)
                 S1 == [S EXCEPT !.d.cwebase =
                           (@ \ found) \cup
                               {known_weakness(The(found), item, version)}]
             IN  IF Cardinality(edges) > 1 THEN Fail(S, "MultipleResultsFound")
                 ELSE IF edges = {}
                 THEN AddEdge(S1, NewEdge(S1, "member_of_primary", weakness,
                                          parent))
                 ELSE S1

RECURSIVE import_weaknesses(_, _, _, _)
import_weaknesses(S, items, version, parent) ==
    IF items = << >> \/ ~Ok(S) THEN S
    ELSE import_weaknesses(import_weakness(S, Head(items), version, parent),
                           Tail(items), version, parent)

RECURSIVE import_weakness_files(_, _)
import_weakness_files(S, files) ==
    IF files = << >> \/ ~Ok(S) THEN S
    ELSE LET file == Head(files)
             p == find_parent(S, file)
             S1 == IF ~Ok(p.S) THEN p.S
                   ELSE import_weaknesses(p.S, file.Weaknesses, file.Version,
                                          The(p.parent))
         IN  import_weakness_files(S1, Tail(files))

import_cwe_weaknesses(d, cwe_weakness_files) ==
    Close(d, import_weakness_files(create_cwe_views(Session(d)),
                                   cwe_weakness_files))

\* a category created without a look at its members
skip_members(S, members, category) == S

\* the belongs_to edges of a new category
RECURSIVE import_members(_, _, _)
import_members(S, members, category) ==
    IF members = << >> \/ ~Ok(S) THEN S
    ELSE LET found == Nodes(S, "weakness", Head(members)) IN
         IF Cardinality(found) > 1 THEN Fail(S, "MultipleResultsFound")
         ELSE IF found = {} THEN Fail(S, "ValueError")
         ELSE import_members(
                  AddEdge(S, NewEdge(S, "belongs_to", NodeId(The(found)), category)),
                  Tail(members), category)

\* a lookup that never finds the category
find_no_category(S, cwe_id) == {}

\* session.query(CweCategory).filter_by(cwe_id=item_id) of import_cwe_categories
find_category(S, cwe_id) == Nodes(S, "category", cwe_id)

\* one <Category> of a file whose parent view is parent
import_category(S, item, version, parent) ==
    LET found == find_category(S, item.ID) IN
    IF Cardinality(found) > 1 THEN Fail(S, "MultipleResultsFound")
    ELSE IF found # {} THEN S
    ELSE IF lower(item.Status) \notin CweCategoryStatus THEN Fail(S, "KeyError")
    ELSE IF lower(item.Usage) \notin CweVulnerabilityMappingType
    THEN Fail(S, "KeyError")
    ELSE LET category ==
                 NewNode(S, "category", item.ID,
                         [name |-> item.Name, version |-> version,
                          mapping |-> lower(item.Usage),
                          status |-> lower(item.Status),
                          abstraction |-> Null, text |-> item.Summary])
             S1 == AddEdge(AddNode(S, category),
                           NewEdge(S, "member_of_primary", NodeId(category),
                                   parent))
         IN  import_members(S1, item.Relationships, NodeId(category))

RECURSIVE import_categories_of(_, _, _, _)
import_categories_of(S, items, version, parent) ==
    IF items = << >> \/ ~Ok(S) THEN S
    ELSE import_categories_of(import_category(S, Head(items), version, parent),
                              Tail(items), version, parent)

RECURSIVE import_category_files(_, _)
import_category_files(S, files) ==
    IF files = << >> \/ ~Ok(S) THEN S
    ELSE LET file == Head(files)
             p == find_parent(S, file)
             S1 == IF ~Ok(p.S) THEN p.S
                   ELSE import_categories_of(p.S, file.Categories, file.Version,
                                             The(p.parent))
         IN  import_category_files(S1, Tail(files))

import_cwe_categories(d, cwe_category_files) ==
    Close(d, import_category_files(Session(d), cwe_category_files))

---------------------------------------------------------------------------
(* import_countries and init_db *)

\* a country is its code; the rows of one call are inserted by its commit,
\* where two new rows with one code break Field(unique=True)
import_countries(d, country_file) ==
    LET new == {i \in 1..Len(country_file) : country_file[i] \notin d.country}
        clash == \E i, j \in new : i # j /\ country_file[i] = country_file[j]
    IN  [db |-> IF clash THEN d
                ELSE [d EXCEPT !.country = @ \cup {country_file[i] : i \in new}],
         err |-> IF clash THEN "IntegrityError" ELSE "none",
         warn |-> << >>, mem |-> NoMem]

Failed(r) == r.err # "none"

\* init_db(load_data=True) on the source files
\* [country_file, cwe_weakness_files, cwe_category_files, vrt]: each import
\* runs only if the one before returned
init_db(d, files) ==
    LET countries == import_countries(d, files.country_file)
        weaknesses ==
            IF Failed(countries) THEN countries
            ELSE import_cwe_weaknesses(countries.db, files.cwe_weakness_files)
        categories ==
            IF Failed(weaknesses) THEN weaknesses
            ELSE import_cwe_categories(weaknesses.db, files.cwe_category_files)
    IN  IF Failed(categories) THEN categories
        ELSE import_vrt_categories(categories.db, files.vrt)

---------------------------------------------------------------------------
(* Source files *)

Priorities == {Nothing} \cup {Some(p) : p \in 0..MaxPriority}

\* nodes of the VRT document, as VrtImport parses them
Node(id, name, priority, children) ==
    [vrt_id |-> id, name |-> name, priority |-> priority, children |-> children]

\* the taxonomy with a leaf at each level; k is the priority the first
\* category declares, p the priority of the sub-category leaf, q the priority
\* of the variant leaf
Taxonomy(k, p, q, rev) ==
    << Node("c1", <<"Category 1", rev>>, k, << >>),
       Node("c2", <<"Category 2", rev>>, Nothing,
            << Node("s1", <<"Sub 1", rev>>, p, << >>) >>),
       Node("c3", <<"Category 3", rev>>, Nothing,
            << Node("s2", <<"Sub 2", rev>>, Nothing,
                    << Node("v1", <<"Variant 1", rev>>, q, << >>) >>) >>) >>

\* one sub-category id under two categories, under two names
SharedSub ==
    << Node("c2", <<"Category 2", 0>>, Nothing,
            << Node("s1", <<"Sub 1", 0>>, Nothing, << >>) >>),
       Node("c3", <<"Category 3", 0>>, Nothing,
            << Node("s1", <<"Sub 1", 1>>, Nothing, << >>) >>) >>

\* one variant id under two sub-categories, under two names
SharedVariant ==
    << Node("c3", <<"Category 3", 0>>, Nothing,
            << Node("s2", <<"Sub 2", 0>>, Nothing,
                    << Node("v1", <<"Variant 1", 0>>, Nothing, << >>) >>),
               Node("s1", <<"Sub 1", 0>>, Nothing,
                    << Node("v1", <<"Variant 1", 1>>, Nothing, << >>) >>) >>) >>

Document(content) == [content |-> content]
NoContent == [metadata |-> "release"]

VrtFiles ==
    {Document(Taxonomy(Nothing, p, q, 0)) : p, q \in Priorities}
        \cup {Document(Taxonomy(k, Nothing, Nothing, 0)) : k \in Priorities}
        \cup {Document(Taxonomy(Nothing, Nothing, Nothing, 1)),
              Document(SharedSub),
              Document(SharedVariant),
              NoContent}

BaseVrtFile == Document(Taxonomy(Nothing, Nothing, Nothing, 0))

\* entries of a side file
Entry(id, key, value) == ("id" :> id) @@ (key :> value)
WithChildren(entry, children) == entry @@ ("children" :> children)
Bare(id) == "id" :> id

Vector31(metrics) == JStr(<<"CVSS:3.1", metrics>>)
BareVector(metrics) == JStr(<<metrics>>)

\* CVSS side file: c1 has its own vector, s1 inherits it from c2, v1 has its
\* own below a sub-category that has another
CvssContent(c1_value) ==
    << Entry("c1", "cvss_v3", c1_value),
       WithChildren(Entry("c2", "cvss_v3", BareVector(MetricsMedium)),
                    << Bare("s1") >>),
       WithChildren(Bare("c3"),
                    << WithChildren(Entry("s2", "cvss_v3", Vector31(MetricsNone)),
                                    << Entry("v1", "cvss_v3",
                                             Vector31(MetricsHigh)) >>) >>) >>

\* the same with the entry of c3 twice
AmbiguousCvssContent ==
    CvssContent(Vector31(MetricsHigh)) \o << Bare("c3") >>

CvssFiles ==
    {Document(CvssContent(Vector31(MetricsHigh))),
     Document(CvssContent(BareVector(MetricsMedium))),
     Document(CvssContent(JNull)),
     Document(AmbiguousCvssContent),
     NoContent}

BaseCvssFile == Document(CvssContent(Vector31(MetricsHigh)))

Token(prefix, id) == [prefix |-> prefix, id |-> id]

\* CWE side file: c1 names one weakness, s1 inherits two names from c2, v1
\* names a weakness twice, one in lower case, and a token of another catalog
CweContent(c1_value) ==
    << Entry("c1", "cwe", c1_value),
       WithChildren(Entry("c2", "cwe",
                          JList(<<Token("CWE-", 79), Token("CWE-", 9999)>>)),
                    << Entry("s1", "cwe", JNull) >>),
       WithChildren(Bare("c3"),
                    << WithChildren(Bare("s2"),
                           << Entry("v1", "cwe",
                                    JList(<<Token("cwe-", 89), Token("CWE-", 89),
                                            Token("CAPEC-", 79)>>)) >>) >>) >>

CweFiles ==
    {Document(CweContent(JList(<<Token("CWE-", 79)>>))),
     Document(CweContent(JList(<<Token("CWE-", 89), Token("CWE-", 79)>>))),
     Document(CweContent(JNull)),
     NoContent}

BaseCweFile == Document(CweContent(JList(<<Token("CWE-", 79)>>)))

VrtSources(vrt_file, cvss_file, cwe_file) ==
    [vrt_file |-> vrt_file, vrt_cvss_v3_file |-> cvss_file,
     vrt_cwe_file |-> cwe_file]

BaseVrtSources == VrtSources(BaseVrtFile, BaseCvssFile, BaseCweFile)

\* the sources of one call of import_vrt_categories: the base files with one
\* of the three replaced
VrtInputs ==
    {VrtSources(f, BaseCvssFile, BaseCweFile) : f \in VrtFiles}
        \cup {VrtSources(BaseVrtFile, f, BaseCweFile) : f \in CvssFiles}
        \cup {VrtSources(BaseVrtFile, BaseCvssFile, f) : f \in CweFiles}

Header(prefix, cwe, name) == [prefix |-> prefix, cwe |-> cwe, name |-> name]
ViewHeader(cwe) == Header("VIEW LIST: CWE-", cwe, ViewName(cwe))

Weakness(id, rev) ==
    [ID |-> id, Name |-> <<"Weakness", id, rev>>,
     Abstraction |-> IF rev = 0 THEN "Base" ELSE "Class",
     Status |-> IF rev = 0 THEN "Draft" ELSE "Stable",
     Description |-> <<"Description", id, rev>>,
     Usage |-> IF rev = 0 THEN "Allowed" ELSE "Allowed-with-Review"]

WeaknessFile(header, rev, ids) ==
    [Name |-> header, Version |-> <<4, 15 + rev>>,
     Weaknesses |-> [i \in 1..Len(ids) |-> Weakness(ids[i], rev)]]

\* cwe_weakness_files: research concepts, hardware design, software development
WeaknessFiles(research, hardware_header, software, rev) ==
    << WeaknessFile(ViewHeader(1000), rev, research),
       WeaknessFile(hardware_header, rev, << >>),
       WeaknessFile(ViewHeader(699), rev, software) >>

BaseWeaknessFiles == WeaknessFiles(<<79, 89>>, ViewHeader(1194), <<79>>, 0)

WeaknessCatalogs ==
    {BaseWeaknessFiles,
     WeaknessFiles(<<79>>, ViewHeader(1194), <<79>>, 0),
     WeaknessFiles(<<79, 89>>, ViewHeader(1194), <<79, 89>>, 1),
     WeaknessFiles(<<79, 89>>, ViewHeader(1194), <<89, 89>>, 0),
     WeaknessFiles(<<79, 89>>, Header("CWE VIEW: ", 1194, "Hardware Design"),
                   <<79>>, 0),
     WeaknessFiles(<<79, 89>>,
                   Header("VIEW LIST: CWE-", 1400, "Comprehensive Categorization"),
                   <<79>>, 0)}

Category(id, rev, members) ==
    [ID |-> id, Name |-> <<"Category", id, rev>>,
     Status |-> IF rev = 0 THEN "Draft" ELSE "Incomplete",
     Summary |-> <<"Summary", id, rev>>, Usage |-> "Prohibited",
     Relationships |-> members]

\* cwe_category_files: the categories of software development
CategoryFiles(header, categories) ==
    << [Name |-> header, Version |-> <<4, 15>>, Categories |-> categories] >>

BaseCategoryFiles == CategoryFiles(ViewHeader(699), << Category(100, 0, <<79>>) >>)

CategoryCatalogs ==
    {BaseCategoryFiles,
     CategoryFiles(ViewHeader(699), << Category(100, 1, <<79, 89>>) >>),
     CategoryFiles(ViewHeader(699),
                   << Category(100, 0, <<79>>), Category(101, 0, <<9999>>) >>),
     CategoryFiles(Header("VIEW LIST: CWE-", 699, ""),
                   << Category(100, 0, <<79>>) >>),
     CategoryFiles(ViewHeader(699), << Category(79, 0, <<79>>) >>),
     CategoryFiles(ViewHeader(699),
                   << [Category(102, 0, <<79>>) EXCEPT
                          !.Usage = "Allowed-with-Review"] >>),
     CategoryFiles(ViewHeader(699),
                   << Category(100, 0, <<79>>), Category(100, 0, <<79>>) >>)}

Sources(weakness_files, category_files, vrt) ==
    [country_file |-> <<"CH", "ES">>, cwe_weakness_files |-> weakness_files,
     cwe_category_files |-> category_files, vrt |-> vrt]

\* the sources of one call of init_db: the base files with one part replaced
Bundles ==
    {Sources(w, BaseCategoryFiles, BaseVrtSources) : w \in WeaknessCatalogs}
        \cup {Sources(BaseWeaknessFiles, c, BaseVrtSources) :
                 c \in CategoryCatalogs}
        \cup {Sources(BaseWeaknessFiles, BaseCategoryFiles, v) :
                 v \in {VrtSources(Document(Taxonomy(Some(MaxPriority), Nothing,
                                                     Nothing, 0)),
                                   BaseCvssFile, BaseCweFile),
                        VrtSources(BaseVrtFile, Document(AmbiguousCvssContent),
                                   BaseCweFile),
                        VrtSources(Document(Taxonomy(Nothing, Some(0), Nothing, 0)),
                                   BaseCvssFile, BaseCweFile)}}

---------------------------------------------------------------------------
(* The import engine as a state machine *)

NoRun == [before |-> EmptyDb, files |-> << >>, failed |-> FALSE]
NoProbe == [fn |-> "none"]

Init ==
    /\ db = EmptyDb
    /\ before = EmptyDb
    /\ op = "none"
    /\ arg = << >>
    /\ err = "none"
    /\ warn = << >>
    /\ mem = NoMem
    /\ runs = 0
    /\ rep = FALSE
    /\ origin = NoRun
    /\ probe = NoProbe

\* one call of name on files, with result r
Call(name, files, r) ==
    /\ runs < MaxRuns
    /\ db' = r.db
    /\ before' = db
    /\ op' = name
    /\ arg' = files
    /\ err' = r.err
    /\ warn' = r.warn
    /\ mem' = r.mem
    /\ runs' = runs + 1
    /\ rep' = (op = name /\ arg = files)
    /\ origin' = IF op = "init" /\ err # "none"
                 THEN [before |-> before, files |-> arg, failed |-> TRUE]
                 ELSE NoRun
    /\ UNCHANGED probe

ImportCweWeaknesses ==
    \E files \in WeaknessCatalogs :
        Call("weak", files, import_cwe_weaknesses(db, files))

ImportCweCategories ==
    \E files \in CategoryCatalogs :
        Call("cat", files, import_cwe_categories(db, files))

ImportVrtCategories ==
    \E files \in VrtInputs :
        Call("vrt", files, import_vrt_categories(db, files))

InitDb ==
    \E files \in Bundles : Call("init", files, init_db(db, files))

Next ==
    \/ ImportCweWeaknesses
    \/ ImportCweCategories
    \/ ImportVrtCategories
    \/ InitDb

Spec == Init /\ [][Next]_vars

---------------------------------------------------------------------------
(* Properties of the import runs *)

NoTwo(q) == \A i, j \in 1..Len(q) : q[i] = q[j] => i = j

\* the leaves a VRT document describes, as the arguments _create_vrt gets
LeafPaths(content) ==
    UNION {LET category == content[i] IN
           IF category.children = << >>
           THEN {[category |-> category.vrt_id, sub_category |-> Null,
                  variant |-> Null, priority |-> Nothing]}
           ELSE UNION {LET sub_category == category.children[j] IN
                       IF sub_category.children = << >>
                       THEN {[category |-> category.vrt_id,
                              sub_category |-> sub_category.vrt_id,
                              variant |-> Null,
                              priority |-> sub_category.priority]}
                       ELSE {[category |-> category.vrt_id,
                              sub_category |-> sub_category.vrt_id,
                              variant |-> sub_category.children[k].vrt_id,
                              priority |-> sub_category.children[k].priority] :
                                k \in 1..Len(sub_category.children)} :
                         j \in 1..Len(category.children)} :
             i \in 1..Len(content)}

\* the VRT sources of the last call, of import_vrt_categories or of init_db
VrtRun == op \in {"vrt", "init"}
VrtArg == IF op = "init" THEN arg.vrt ELSE arg

VrtCounts(d) ==
    <<Cardinality(d.vrtcategory), Cardinality(d.vrtsubcategory),
      Cardinality(d.vrtvariant), Cardinality(d.vrt)>>

\* C1: a second import_vrt_categories on the same VRT tree, CVSS side file and
\* CWE side file leaves the row counts of the four VRT tables as the first
\* run left them, and no two Vrt rows ever share (category, sub-category,
\* variant, priority), NULLs compared as equal.
C1_RerunKeepsVrtRows ==
    /\ \A a, b \in db.vrt : LeafKey(a) = LeafKey(b) => a = b
    /\ (op = "vrt" /\ rep) => VrtCounts(db) = VrtCounts(before)

\* a second run on the base files that has met the category-only leaf again
C1_Witness ==
    /\ op = "vrt" /\ rep /\ err = "none" /\ arg = BaseVrtSources
    /\ Cardinality({l \in db.vrt : LeafKey(l) = <<"c1", Null, Null, Nothing>>}) = 1
    /\ VrtCounts(db) = <<3, 2, 1, 3>>

\* the results of the imports of one init_db call, in order, up to the
\* first that raised
Phases(d, files) ==
    LET countries == import_countries(d, files.country_file)
        weaknesses == import_cwe_weaknesses(countries.db,
                                            files.cwe_weakness_files)
        categories == import_cwe_categories(weaknesses.db,
                                            files.cwe_category_files)
        vrt == import_vrt_categories(categories.db, files.vrt)
    IN  IF Failed(countries) THEN <<countries>>
        ELSE IF Failed(weaknesses) THEN <<countries, weaknesses>>
        ELSE IF Failed(categories) THEN <<countries, weaknesses, categories>>
        ELSE <<countries, weaknesses, categories, vrt>>

Observable(d) ==
    [country |-> d.country,
     cwebase |-> {NodeId(n) : n \in d.cwebase},
     cwerelationship |-> {<<e.source, e.destination, e.nature>> :
                             e \in d.cwerelationship},
     vrtcategory |-> {r.vrt_id : r \in d.vrtcategory},
     vrtsubcategory |-> {r.vrt_id : r \in d.vrtsubcategory},
     vrtvariant |-> {r.vrt_id : r \in d.vrtvariant},
     vrt |-> {<<LeafId(l), l.cvss>> : l \in d.vrt},
     cvss |-> {CvssId(c) : c \in d.cvss},
     vrtcwemapping |-> d.vrtcwemapping]

\* the last call is a full run that returned, right after one that raised
Retried == op = "init" /\ err = "none" /\ origin.failed

\* the retry reads the same files as the failed run did in the imports that
\* the failed run had committed
CommittedFilesUnchanged ==
    LET n == Len(Phases(origin.before, origin.files)) - 1 IN
    /\ n >= 1 => arg.country_file = origin.files.country_file
    /\ n >= 2 => arg.cwe_weakness_files = origin.files.cwe_weakness_files
    /\ n >= 3 => arg.cwe_category_files = origin.files.cwe_category_files

\* C3 as stated: a full run that returns after a failed one ends in the
\* observable state of one run of its files from the state before the
\* failed run.
C3_RetryConverges ==
    Retried => Observable(db) = Observable(init_db(origin.before, arg).db)

\* C3 amended: the same, for a retry that leaves the files of the imports
\* the failed run had committed as they were.
C3_RetryConvergesOnCommittedFiles ==
    (Retried /\ CommittedFilesUnchanged) =>
        Observable(db) = Observable(init_db(origin.before, arg).db)

\* a retry with another category catalog, after the weaknesses were committed
C3_Witness ==
    /\ Retried /\ CommittedFilesUnchanged
    /\ arg # origin.files
    /\ before # origin.before
    /\ before.cwebase # {} /\ db.vrt # {} /\ db.vrtcwemapping # {}

\* C6: import_vrt_categories raises ValueError whenever a category of the
\* tree declares a priority that is not null.
C6_CategoryPriorityRejected ==
    (op = "vrt" /\ "content" \in DOMAIN arg.vrt_file
        /\ \E i \in 1..Len(arg.vrt_file.content) :
               arg.vrt_file.content[i].priority # Nothing)
        => err = "ValueError"

\* C9: after a VRT import that returned, every CWE-<digits> token of a
\* leaf's resolved list that matches no weakness, or more than one, has a
\* warning.
C9_UnmatchedTokenWarned ==
    (VrtRun /\ err = "none" /\ "content" \in DOMAIN VrtArg.vrt_file
        /\ "content" \in DOMAIN VrtArg.vrt_cwe_file) =>
        \A leaf \in LeafPaths(VrtArg.vrt_file.content) :
            LET items == get_vrt_mapping(VrtArg.vrt_cwe_file.content,
                                         leaf.category, leaf.sub_category,
                                         leaf.variant, "cwe")
            IN  (items.err = "none" /\ Truthy(items.val)) =>
                    \A i \in 1..Len(items.val.v) :
                        LET item == items.val.v[i] IN
                        (/\ item.prefix \in {"CWE-", "cwe-"}
                         /\ Cardinality({n \in db.cwebase :
                                n.kind = "weakness" /\ n.cwe_id = item.id}) # 1)
                            => \E j \in 1..Len(warn) : warn[j].cwe_id = item.id

\* C10: a weakness is appended to a leaf's cross-reference collection only
\* if the collection does not hold it: in the collection of every leaf of a
\* run each weakness occurs at most once.
C10_WeaknessAppendedOnce ==
    \A vrt \in DOMAIN mem : NoTwo(mem[vrt])

---------------------------------------------------------------------------
(* get_vrt_mapping on generated side files *)

Absent == [t |-> "absent"]

\* the value an entry of a level holds under key
LevelValue(key, level) ==
    IF key = "cvss_v3"
    THEN CASE level = "category" -> Vector31(MetricsHigh)
           [] level = "sub_category" -> BareVector(MetricsMedium)
           [] level = "variant" -> Vector31(MetricsNone)
    ELSE CASE level = "category" -> JList(<<Token("CWE-", 79)>>)
           [] level = "sub_category" -> JList(<<Token("CWE-", 89)>>)
           [] level = "variant" -> JList(<<Token("CWE-", 9999)>>)

EmptyValue(key) == IF key = "cvss_v3" THEN JStr(<< >>) ELSE JList(<< >>)

EntryHolding(id, key, value) ==
    IF value = Absent THEN Bare(id) ELSE Entry(id, key, value)

\* a sibling list: an entry of another id, then n entries of id, the first
\* of them being first
Siblings(n, id, first) ==
    << Bare("other") >>
        \o (IF n = 0 THEN << >> ELSE << first >>)
        \o [i \in 1..(IF n = 0 THEN 0 ELSE n - 1) |-> Bare(id)]

\* the shape of a side file along the path c1 / s1 / v1: per level the number
\* of entries with the id, what the first holds, and whether it has children
Shapes ==
    {shape \in [key : {"cvss_v3", "cwe"},
                categories : 0..MaxSiblings, category : {"a", "n", "e", "v"},
                category_children : BOOLEAN,
                sub_categories : 0..MaxSiblings,
                sub_category : {"a", "n", "e", "v"},
                sub_category_children : BOOLEAN,
                variants : 0..MaxSiblings, variant : {"a", "n", "e", "v"}] :
        /\ (shape.categories # 1 \/ ~shape.category_children) =>
               shape.sub_categories = 0 /\ shape.sub_category = "a"
                   /\ ~shape.sub_category_children
        /\ (shape.sub_categories # 1 \/ ~shape.sub_category_children) =>
               shape.variants = 0 /\ shape.variant = "a"
        /\ shape.categories # 1 => shape.category = "a"}

Holding(shape, level, letter) ==
    CASE letter = "a" -> Absent
      [] letter = "n" -> JNull
      [] letter = "e" -> EmptyValue(shape.key)
      [] letter = "v" -> LevelValue(shape.key, level)

SideContent(shape) ==
    LET variant == EntryHolding("v1", shape.key,
                                Holding(shape, "variant", shape.variant))
        sub == EntryHolding("s1", shape.key,
                            Holding(shape, "sub_category", shape.sub_category))
        sub_category ==
            IF shape.sub_category_children
            THEN WithChildren(sub, Siblings(shape.variants, "v1", variant))
            ELSE sub
        cat == EntryHolding("c1", shape.key,
                            Holding(shape, "category", shape.category))
        category ==
            IF shape.category_children
            THEN WithChildren(cat, Siblings(shape.sub_categories, "s1",
                                            sub_category))
            ELSE cat
    IN  Siblings(shape.categories, "c1", category)

\* the paths a caller asks for: a category, a sub-category of it, a variant
Requests ==
    {[category |-> "c1", sub_category |-> Null, variant |-> Null],
     [category |-> "c1", sub_category |-> "s1", variant |-> Null],
     [category |-> "c1", sub_category |-> "s1", variant |-> "v1"]}

\* the VRT document that makes import_vrt_categories ask for a path
RequestDocument(request) ==
    Document(<< Node(request.category, <<"Category 1", 0>>, Nothing,
        IF request.sub_category = Null THEN << >>
        ELSE << Node(request.sub_category, <<"Sub 1", 0>>, Nothing,
                IF request.variant = Null THEN << >>
                ELSE << Node(request.variant, <<"Variant 1", 0>>, Nothing,
                             << >>) >>) >>) >>)

RequestSources(shape, request) ==
    IF shape.key = "cvss_v3"
    THEN VrtSources(RequestDocument(request), Document(SideContent(shape)),
                    NoContent)
    ELSE VrtSources(RequestDocument(request), NoContent,
                    Document(SideContent(shape)))

InitMapping ==
    /\ db = EmptyDb /\ before = EmptyDb /\ op = "none" /\ arg = << >>
    /\ err = "none" /\ warn = << >> /\ mem = NoMem /\ runs = 0 /\ rep = FALSE
    /\ origin = NoRun
    /\ probe \in {[fn |-> "get_vrt_mapping", shape |-> shape,
                   request |-> request, done |-> FALSE,
                   out |-> Return(JNull), imported |-> FALSE,
                   run |-> [err |-> "none", db |-> EmptyDb]] :
                     shape \in Shapes, request \in Requests}

\* the call
ResolveMapping ==
    /\ ~probe.done
    /\ \E json_object \in {SideContent(probe.shape)} :
           probe' = [probe EXCEPT
               !.done = TRUE,
               !.out = get_vrt_mapping(json_object, probe.request.category,
                                       probe.request.sub_category,
                                       probe.request.variant, probe.shape.key)]
    /\ UNCHANGED <<db, before, op, arg, err, warn, mem, runs, rep, origin>>

\* the import that makes a call that raised: the one path against the side
\* file, from an empty database
ImportRequest ==
    /\ probe.done /\ ~probe.imported /\ probe.out.err # "none"
    /\ \E files \in {RequestSources(probe.shape, probe.request)} :
           \E r \in {import_vrt_categories(EmptyDb, files)} :
               probe' = [probe EXCEPT !.imported = TRUE,
                                      !.run = [err |-> r.err, db |-> r.db]]
    /\ UNCHANGED <<db, before, op, arg, err, warn, mem, runs, rep, origin>>

NextMapping == ResolveMapping \/ ImportRequest

SpecMapping == InitMapping /\ [][NextMapping]_vars

\* the entries of the side file on the requested path, from the shape
SubCategorySearched ==
    /\ probe.request.sub_category # Null
    /\ probe.shape.categories = 1 /\ probe.shape.category_children
SubCategoryOnChain == SubCategorySearched /\ probe.shape.sub_categories = 1
VariantSearched ==
    /\ probe.request.variant # Null
    /\ SubCategoryOnChain /\ probe.shape.sub_category_children
VariantOnChain == VariantSearched /\ probe.shape.variants = 1

\* some list that is searched holds the requested id more than once
DuplicateId ==
    \/ probe.shape.categories > 1
    \/ SubCategorySearched /\ probe.shape.sub_categories > 1
    \/ VariantSearched /\ probe.shape.variants > 1

\* the value the inheritance chain yields
Inherited ==
    IF VariantOnChain /\ probe.shape.variant = "v"
    THEN LevelValue(probe.shape.key, "variant")
    ELSE IF SubCategoryOnChain /\ probe.shape.sub_category = "v"
    THEN LevelValue(probe.shape.key, "sub_category")
    ELSE IF probe.shape.categories = 1 /\ probe.shape.category \in {"e", "v"}
    THEN Holding(probe.shape, "category", probe.shape.category)
    ELSE JNull

\* C4: get_vrt_mapping returns the variant entry's value when set, otherwise
\* the sub-category entry's when set, otherwise the category entry's; a
\* value missing at a deeper level does not raise, and the result is null
\* only if no entry on the chain sets the key.
C4_InheritanceChain ==
    (probe.done /\ ~DuplicateId) =>
        /\ probe.out = Return(Inherited)
        /\ probe.out.val = JNull =>
               /\ ~(VariantOnChain /\ probe.shape.variant = "v")
               /\ ~(SubCategoryOnChain /\ probe.shape.sub_category = "v")
               /\ probe.shape.category # "v"

\* a variant whose entry and whose sub-category's entry hold nothing gets
\* the value of the category
C4_Witness ==
    /\ probe.done /\ VariantOnChain
    /\ probe.shape.variant = "n" /\ probe.shape.sub_category = "e"
    /\ probe.shape.category = "v"
    /\ probe.out = Return(LevelValue(probe.shape.key, "category"))

\* C7: get_vrt_mapping raises MultipleResultsFound exactly when a list it
\* searches (categories, sub-categories of the category, variants of the
\* sub-category) holds the requested id more than once, and the import that
\* makes the call raises it too and commits nothing; with no entry of the
\* category id it returns null.
C7_DuplicateIdIsFatal ==
    probe.done =>
        /\ (probe.out.err = "MultipleResultsFound") = DuplicateId
        /\ probe.out.err \in {"none", "MultipleResultsFound"}
        /\ probe.imported => probe.run = [err |-> "MultipleResultsFound",
                                           db |-> EmptyDb]
        /\ probe.shape.categories = 0 => probe.out = Return(JNull)

\* the variant id twice below a sub-category that holds a value
C7_Witness ==
    /\ probe.imported /\ VariantSearched /\ probe.shape.variants = 2
    /\ probe.shape.sub_category = "v"
    /\ probe.out.err = "MultipleResultsFound"
    /\ probe.run.err = "MultipleResultsFound" /\ probe.run.db = EmptyDb

---------------------------------------------------------------------------
(* get_vrt on drawn databases *)

\* the keys a Vrt row of category c1 can have
LeafKeys ==
    {[category |-> "c1", sub_category |-> place[1], variant |-> place[2],
      priority |-> priority] :
        place \in {<<Null, Null>>, <<"s1", Null>>, <<"s1", "v1">>},
        priority \in Priorities}

LeafRow(key) ==
    [category |-> key.category, sub_category |-> key.sub_category,
     variant |-> key.variant, priority |-> key.priority, dup |-> 0,
     cvss |-> Nothing]

\* a database with the rows of keys and the nodes they refer to
LeafDb(keys) ==
    [EmptyDb EXCEPT
        !.vrtcategory = {[vrt_id |-> "c1", name |-> <<"Category 1", 0>>]},
        !.vrtsubcategory = {[vrt_id |-> "s1", name |-> <<"Sub 1", 0>>]},
        !.vrtvariant = {[vrt_id |-> "v1", name |-> <<"Variant 1", 0>>]},
        !.vrt = {LeafRow(key) : key \in keys}]

\* what get_vrt is asked for: any of the last three parts may be absent
LeafRequests ==
    [category : {"c1"}, sub_category : {Null, "s1"}, variant : {Null, "v1"},
     priority : Priorities]

InitGetVrt ==
    /\ db = EmptyDb /\ before = EmptyDb /\ op = "none" /\ arg = << >>
    /\ err = "none" /\ warn = << >> /\ mem = NoMem /\ runs = 0 /\ rep = FALSE
    /\ origin = NoRun
    /\ probe \in {[fn |-> "get_vrt", d |-> LeafDb(keys), request |-> request,
                   done |-> FALSE, out |-> Return({})] :
                     keys \in {k \in SUBSET LeafKeys : Cardinality(k) <= MaxLeaves},
                     request \in LeafRequests}

QueryVrt ==
    /\ ~probe.done
    /\ probe' = [probe EXCEPT
           !.done = TRUE,
           !.out = get_vrt(probe.d, probe.request.category,
                           probe.request.sub_category, probe.request.variant,
                           probe.request.priority)]
    /\ UNCHANGED <<db, before, op, arg, err, warn, mem, runs, rep, origin>>

SpecGetVrt == InitGetVrt /\ [][QueryVrt]_vars

\* C5: get_vrt selects exactly the rows whose category, sub-category,
\* variant and priority each equal the requested value, an absent part
\* matching NULL only.
C5_ExactLookup ==
    probe.done =>
        probe.out = Return({l \in probe.d.vrt :
                               /\ l.category = probe.request.category
                               /\ l.sub_category = probe.request.sub_category
                               /\ l.variant = probe.request.variant
                               /\ l.priority = probe.request.priority})

---------------------------------------------------------------------------
(* The CWE links of import_vrt_categories on drawn databases *)

\* the database after import_cwe_weaknesses on the base catalog
Seeded == import_cwe_weaknesses(EmptyDb, BaseWeaknessFiles).db

\* the same with a second weakness row of cwe_id 79 (cwe_id is not unique)
Duplicated ==
    [Seeded EXCEPT !.cwebase =
        @ \cup {[n EXCEPT !.dup = 1] :
                   n \in {m \in Seeded.cwebase :
                             m.kind = "weakness" /\ m.cwe_id = 79}}]

\* the same with a category of cwe_id 9999, which no weakness has
OtherKind ==
    import_cwe_categories(
        Seeded, CategoryFiles(ViewHeader(699),
                              << Category(9999, 0, <<79>>) >>)).db

\* the database after a full run on the base files
Linked ==
    init_db(EmptyDb,
            Sources(BaseWeaknessFiles, BaseCategoryFiles, BaseVrtSources)).db

LinkDbs == {EmptyDb, Seeded, Duplicated, OtherKind, Linked}

InitLinks ==
    /\ db = EmptyDb /\ before = EmptyDb /\ op = "none" /\ arg = << >>
    /\ err = "none" /\ warn = << >> /\ mem = NoMem /\ runs = 0 /\ rep = FALSE
    /\ origin = NoRun
    /\ probe \in {[fn |-> "import_vrt_categories", d |-> d, files |-> files,
                   done |-> FALSE,
                   out |-> [db |-> d, err |-> "none", warn |-> << >>,
                            mem |-> NoMem]] :
                     d \in LinkDbs, files \in VrtInputs}

LinkLeaves ==
    /\ ~probe.done
    /\ probe' = [probe EXCEPT
           !.done = TRUE,
           !.out = import_vrt_categories(probe.d, probe.files)]
    /\ UNCHANGED <<db, before, op, arg, err, warn, mem, runs, rep, origin>>

SpecLinks == InitLinks /\ [][LinkLeaves]_vars

\* a link as the place of its leaf in the taxonomy and its node
PlacedLinks(d) ==
    {<<m.vrt_id.category, m.vrt_id.sub_category, m.vrt_id.variant,
       m.cwe_base_id>> : m \in d.vrtcwemapping}

\* the links C8 asks for: one for each CWE-<digits> token of a leaf's
\* resolved list whose number exactly one weakness of d has
TokenLinks(d, files) ==
    IF "content" \notin DOMAIN files.vrt_file
        \/ "content" \notin DOMAIN files.vrt_cwe_file
    THEN {}
    ELSE UNION {
        LET items == get_vrt_mapping(files.vrt_cwe_file.content, leaf.category,
                                     leaf.sub_category, leaf.variant, "cwe")
        IN  IF items.err # "none" \/ ~Truthy(items.val) THEN {}
            ELSE UNION {
                LET item == items.val.v[i]
                    found == {n \in d.cwebase : n.kind = "weakness"
                                                    /\ n.cwe_id = item.id}
                IN  IF item.prefix \in {"CWE-", "cwe-"}
                        /\ Cardinality(found) = 1
                    THEN {<<leaf.category, leaf.sub_category, leaf.variant,
                            NodeId(n)>> : n \in found}
                    ELSE {} : i \in 1..Len(items.val.v)} :
          leaf \in LeafPaths(files.vrt_file.content)}

\* C8: an import links a leaf to the weakness of each CWE-<digits> token of
\* its resolved list that exactly one weakness has, and makes no link for a
\* token that no weakness or more than one has; such a token does not make
\* the run fail; only weaknesses are linked.
C8_TokenLinks ==
    probe.done =>
        /\ probe.out.err =
               import_vrt_categories(
                   probe.d, [probe.files EXCEPT !.vrt_cwe_file = NoContent]).err
        /\ probe.out.err = "none" =>
               PlacedLinks(probe.out.db) =
                   PlacedLinks(probe.d) \cup TokenLinks(probe.d, probe.files)
        /\ \A m \in probe.out.db.vrtcwemapping :
               m.cwe_base_id.kind = "weakness"

\* weakness 79 present, 9999 absent: the leaf of s1, whose list is
\* [CWE-79, CWE-9999], is linked to 79 only
C8_Witness ==
    /\ probe.done /\ probe.d = Seeded /\ probe.files = BaseVrtSources
    /\ probe.out.err = "none"
    /\ {m.cwe_base_id.cwe_id : m \in {x \in probe.out.db.vrtcwemapping :
                                         x.vrt_id.sub_category = "s1"}} = {79}

---------------------------------------------------------------------------
(* create_cvss_v3 in a sequence of calls *)

\* the vectors a caller passes: none, empty, with and without prefix
Vectors ==
    {JNull, JStr(<< >>), Vector31(MetricsHigh), BareVector(MetricsHigh),
     Vector31(MetricsMedium), BareVector(MetricsNone),
     JStr(<<"CVSS:3.0", MetricsHigh>>), JStr(<<"CVSS:4.0", MetricsHigh>>),
     JStr(<<"cvss:3.1", MetricsHigh>>)}

\* a database whose Cvss row of the high vector holds the score and the
\* severity of another scoring
Rescored ==
    [EmptyDb EXCEPT !.cvss = {[base_score |-> 75, base_severity |-> "high",
                               base_vector |-> <<"CVSS:3.1", MetricsHigh>>,
                               dup |-> 0]}]

InitCvss ==
    /\ db = EmptyDb /\ before = EmptyDb /\ op = "none" /\ arg = << >>
    /\ err = "none" /\ warn = << >> /\ mem = NoMem /\ runs = 0 /\ rep = FALSE
    /\ origin = NoRun
    /\ probe \in {[fn |-> "create_cvss_v3", d |-> d, prior |-> d, calls |-> 0,
                   vector |-> JNull, err |-> "none", result |-> Nothing] :
                     d \in {EmptyDb, Rescored}}

\* one call in a session that is committed when the call returns
CreateCvssV3 ==
    /\ probe.calls < MaxCalls
    /\ \E vector \in Vectors :
           \E o \in {create_cvss_v3(Session(probe.d), vector)} :
               probe' = [probe EXCEPT
                   !.d = IF Ok(o.S) THEN o.S.d ELSE probe.d,
                   !.prior = probe.d, !.calls = probe.calls + 1,
                   !.vector = vector, !.err = o.S.err, !.result = o.result]
    /\ UNCHANGED <<db, before, op, arg, err, warn, mem, runs, rep, origin>>

SpecCvss == InitCvss /\ [][CreateCvssV3]_vars

\* the rows that held the normalized vector of the last call before it
Known ==
    LET made == create_cvss3(probe.vector) IN
    IF made.err # "none" \/ made.val = Nothing THEN {}
    ELSE {r \in probe.prior.cvss : r.base_vector = The(made.val).base_vector}

\* C11: there is at most one Cvss row per base_vector; a create_cvss_v3 call
\* whose normalized vector an existing row holds returns that row, with the
\* score and severity of the call, and inserts nothing.
C11_OneRowPerVector ==
    /\ \A a, b \in probe.d.cvss : a.base_vector = b.base_vector => a = b
    /\ (probe.calls > 0 /\ Known # {}) =>
           LET cvss == The(create_cvss3(probe.vector).val) IN
           /\ probe.err = "none"
           /\ probe.result = Some(CvssId(The(Known)))
           /\ {CvssId(r) : r \in probe.d.cvss}
                  = {CvssId(r) : r \in probe.prior.cvss}
           /\ \E r \in probe.d.cvss :
                  /\ CvssId(r) = The(probe.result)
                  /\ r.base_score = cvss.base_score
                  /\ r.base_severity = cvss.base_severity

\* the high vector without prefix meets the row that holds it with a prefix
\* and another score
C11_Witness ==
    /\ probe.calls > 0 /\ probe.prior = Rescored
    /\ probe.vector = BareVector(MetricsHigh)
    /\ probe.result = Some([base_vector |-> <<"CVSS:3.1", MetricsHigh>>,
                            dup |-> 0])
    /\ probe.d.cvss = {[base_score |-> 98, base_severity |-> "critical",
                        base_vector |-> <<"CVSS:3.1", MetricsHigh>>,
                        dup |-> 0]}

---------------------------------------------------------------------------
(* Properties of the imports on changed and unchanged source files *)

\* the (vrt_id, name) pairs a VRT document gives the rows of a table
NamesOf(content, table) ==
    LET categories == {content[i] : i \in 1..Len(content)}
        sub_categories ==
            UNION {{c.children[j] : j \in 1..Len(c.children)} : c \in categories}
        variants ==
            UNION {{x.children[k] : k \in 1..Len(x.children)} :
                      x \in sub_categories}
        nodes == CASE table = "vrtcategory" -> categories
                   [] table = "vrtsubcategory" -> sub_categories
                   [] table = "vrtvariant" -> variants
    IN  {<<n.vrt_id, n.name>> : n \in nodes}

\* the Cvss reference the side file gives a leaf now
ResolvedCvss(files, leaf) ==
    IF "content" \notin DOMAIN files.vrt_cvss_v3_file
        \/ files.vrt_cvss_v3_file.content = << >>
    THEN Nothing
    ELSE LET vector == get_vrt_mapping(files.vrt_cvss_v3_file.content,
                                       leaf.category, leaf.sub_category,
                                       leaf.variant, "cvss_v3")
             made == create_cvss3(vector.val)
         IN  IF made.val = Nothing THEN Nothing
             ELSE Some(CvssId(The(made.val)))

\* files without a defect that is fatal by design: no category declares a
\* priority and no side-file list holds an id of the tree twice
WellFormed(files) ==
    /\ "content" \in DOMAIN files.vrt_file
    /\ \A i \in 1..Len(files.vrt_file.content) :
           files.vrt_file.content[i].priority = Nothing
    /\ \A leaf \in LeafPaths(files.vrt_file.content) :
           \A key \in {"cvss_v3", "cwe"} :
               LET file == IF key = "cwe" THEN files.vrt_cwe_file
                           ELSE files.vrt_cvss_v3_file
               IN  "content" \in DOMAIN file =>
                       get_vrt_mapping(file.content, leaf.category,
                                       leaf.sub_category, leaf.variant,
                                       key).err = "none"

\* d holds a leaf for every leaf of the document
LeavesKnown(d, files) ==
    \A leaf \in LeafPaths(files.vrt_file.content) :
        \E l \in d.vrt : LeafKey(l) = LeafKey(leaf)

\* C12: an import on files whose leaves the database already holds updates
\* in place: it returns, the rows of the nodes take the names of the files,
\* every leaf refers to the Cvss row of the vector resolved now (to none
\* when none resolves), and no row is added to the four VRT tables.
C12_UpdatesInPlace ==
    (op = "vrt" /\ WellFormed(arg) /\ LeavesKnown(before, arg)) =>
        /\ err = "none"
        /\ VrtCounts(db) = VrtCounts(before)
        /\ \A table \in {"vrtcategory", "vrtsubcategory", "vrtvariant"} :
               \A pair \in NamesOf(arg.vrt_file.content, table) :
                   \E r \in db[table] :
                       /\ r.vrt_id = pair[1]
                       /\ <<r.vrt_id, r.name>>
                              \in NamesOf(arg.vrt_file.content, table)
        /\ \A leaf \in LeafPaths(arg.vrt_file.content) :
               \E l \in db.vrt : /\ LeafKey(l) = LeafKey(leaf)
                                 /\ l.cvss = ResolvedCvss(arg, leaf)

\* the Category entries of a category catalog
EntriesOf(files) ==
    UNION {{files[i].Categories[j] : j \in 1..Len(files[i].Categories)} :
              i \in 1..Len(files)}

\* the nodes of kind category with a cwe_id, and the edges at a set of nodes
CategoriesAt(d, cwe_id) ==
    {n \in d.cwebase : n.kind = "category" /\ n.cwe_id = cwe_id}
EdgesAt(d, nodes) ==
    {e \in d.cwerelationship :
        \E n \in nodes : e.source = NodeId(n) \/ e.destination = NodeId(n)}

\* C13: import_cwe_categories changes nothing for an entry whose cwe_id a
\* Category has: the node keeps its attributes and its edges, missing ones
\* are not added; a run on a catalog all of whose entries are known changes
\* nothing at all.
C13_KnownCategorySkipped ==
    op = "cat" =>
        /\ \A item \in EntriesOf(arg) :
               LET known == CategoriesAt(before, item.ID) IN
               known # {} =>
                   /\ CategoriesAt(db, item.ID) = known
                   /\ EdgesAt(db, known) = EdgesAt(before, known)
        /\ (\A item \in EntriesOf(arg) : CategoriesAt(before, item.ID) # {})
               => db = before

\* category 100 is met again under another name and with member 89 added:
\* the run returns and neither the name nor the edge of 89 is there
C13_Witness ==
    /\ op = "cat" /\ err = "none"
    /\ arg = CategoryFiles(ViewHeader(699), << Category(100, 1, <<79, 89>>) >>)
    /\ \E n \in CategoriesAt(db, 100) :
           /\ n.name = <<"Category", 100, 0>>
           /\ \A e \in db.cwerelationship :
                  e.destination = NodeId(n) => e.source.cwe_id # 89
           /\ \E e \in db.cwerelationship :
                  e.destination = NodeId(n) /\ e.source.cwe_id = 79

\* C14: an import never changes a Weakness or Category node that exists:
\* name, version, status, description, abstraction and mapping stay as the
\* first import set them.
C14_AttributesSetOnce ==
    \A n \in before.cwebase :
        n.kind \in {"weakness", "category"} => n \in db.cwebase

\* weakness 79 is met again in a catalog of another version that gives it
\* another name, status, abstraction and mapping
C14_Witness ==
    /\ op = "weak" /\ err = "none"
    /\ arg = WeaknessFiles(<<79, 89>>, ViewHeader(1194), <<79, 89>>, 1)
    /\ \E n \in db.cwebase :
           /\ n.kind = "weakness" /\ n.cwe_id = 79 /\ n \in before.cwebase
           /\ n.name = <<"Weakness", 79, 0>> /\ n.version = <<4, 15>>
           /\ n.status = "draft" /\ n.mapping = "allowed"

\* every file of a catalog has a header that matches and names a view of d
HeadersKnown(d, files) ==
    \A i \in 1..Len(files) :
        /\ HeaderMatches(files[i].Name)
        /\ \E n \in d.cwebase : n.kind = "view" /\ n.cwe_id = files[i].Name.cwe

\* the entries of a category catalog that d has no Category for and that
\* list a member d has no Weakness for
MemberMissing(d, files) ==
    {item \in EntriesOf(files) :
        /\ CategoriesAt(d, item.ID) = {}
        /\ \E k \in 1..Len(item.Relationships) :
               \A n \in d.cwebase :
                   ~(n.kind = "weakness" /\ n.cwe_id = item.Relationships[k])}

\* every category lookup of a catalog returns at most one row of d, so that
\* the run gets to each of its entries
LookupsReturn(d, files) ==
    \A item \in EntriesOf(files) : Cardinality(CategoriesAt(d, item.ID)) <= 1

\* C15: import_cwe_categories raises ValueError when a category it is to
\* create lists a member that no Weakness has, and the category is not
\* persisted (nor anything else of the run).
C15_MissingMemberIsFatal ==
    (op = "cat" /\ HeadersKnown(before, arg) /\ LookupsReturn(before, arg)
        /\ MemberMissing(before, arg) # {})
        => /\ err = "ValueError"
           /\ db = before
           /\ \A item \in MemberMissing(before, arg) :
                  CategoriesAt(db, item.ID) = {}

\* category 101 lists weakness 9999, which the database does not hold;
\* category 100 of the same file, created before it, is not persisted either
C15_Witness ==
    /\ op = "cat" /\ err = "ValueError" /\ HeadersKnown(before, arg)
    /\ {item.ID : item \in MemberMissing(before, arg)} = {101}
    /\ \E n \in before.cwebase : n.kind = "weakness" /\ n.cwe_id = 79
    /\ CategoriesAt(db, 100) = {} /\ CategoriesAt(db, 101) = {}

\* the session of the last CWE import when its first file is opened, and
\* the session after the files of a catalog
Opened ==
    IF op = "weak" THEN create_cwe_views(Session(before)) ELSE Session(before)
Processed(files) ==
    IF op = "weak" THEN import_weakness_files(Opened, files)
    ELSE import_category_files(Opened, files)

\* the files whose header does not match or names a view that is not there
Rejected ==
    {i \in 1..Len(arg) :
        \/ arg[i].Name.prefix # "VIEW LIST: CWE-" \/ arg[i].Name.name = ""
        \/ \A n \in Opened.d.cwebase :
               ~(n.kind = "view" /\ n.cwe_id = arg[i].Name.cwe)}

\* C16: import_cwe_weaknesses and import_cwe_categories raise ValueError
\* for a file whose header does not match 'VIEW LIST: CWE-<id>: <name>' or
\* names a view that does not exist, before an entry of that file is
\* processed: the session is as the files before it left it.
C16_HeaderCheckedFirst ==
    (op \in {"weak", "cat"} /\ Rejected # {}) =>
        LET first == CHOOSE i \in Rejected : \A j \in Rejected : i <= j
            whole == Processed(arg)
            part == Processed(SubSeq(arg, 1, first - 1))
        IN  /\ err = "ValueError" /\ db = before
            /\ whole.err = "ValueError"
            /\ whole.d = part.d /\ whole.pend = part.pend

\* the second weakness file has a header of another form; the first file
\* had been processed in the session
C16_Witness ==
    /\ op = "weak" /\ err = "ValueError" /\ Rejected = {2}
    /\ arg[2].Name.prefix = "CWE VIEW: "
    /\ \E n \in Processed(arg).d.cwebase : n.kind = "weakness"
    /\ \A n \in db.cwebase : n.kind # "weakness"

ViewsOf(d) == {n \in d.cwebase : n.kind = "view"}

SamePair(e, f) == e.source = f.source /\ e.destination = f.destination

\* the weaknesses of the files of a weakness import that had an edge to the
\* view of their file before the run
KnownEdges(d, files) ==
    {e \in d.cwerelationship :
        \E i \in 1..Len(files) : \E j \in 1..Len(files[i].Weaknesses) :
            /\ e.source = [kind |-> "weakness",
                           cwe_id |-> files[i].Weaknesses[j].ID, dup |-> 0]
            /\ e.destination.cwe_id = files[i].Name.cwe}

\* C18: the cwerelationship table holds at most one edge for an ordered pair
\* (source, destination); a CWE import keeps the edges it finds and adds no
\* edge for a pair that had one before the run.
C18_OneEdgePerPair ==
    /\ \A e, f \in db.cwerelationship : SamePair(e, f) => e = f
    /\ before.cwerelationship \subseteq db.cwerelationship
    /\ \A e \in db.cwerelationship \ before.cwerelationship :
           \A f \in before.cwerelationship : ~SamePair(e, f)

\* a weakness import that met edges it had committed before, and added others
C18_Witness ==
    /\ op = "weak" /\ err = "none" /\ KnownEdges(before, arg) # {}
    /\ db.cwerelationship # before.cwerelationship

\* the ids of the weaknesses, or of the categories, of the files of a run
ItemIds(files) ==
    UNION {{IF op = "weak" THEN files[i].Weaknesses[j].ID
            ELSE files[i].Categories[j].ID :
                j \in 1..Len(IF op = "weak" THEN files[i].Weaknesses
                             ELSE files[i].Categories)} :
           i \in 1..Len(files)}

\* C19: nodes are matched by kind and cwe_id: the table never holds two
\* weaknesses or two categories with one cwe_id, and an import that returns
\* leaves a node of its own kind for every id of its files, whatever nodes
\* of other kinds carry that id.
C19_OneNodePerKindAndId ==
    /\ \A n, m \in db.cwebase :
           n.kind = m.kind /\ n.cwe_id = m.cwe_id => n = m
    /\ op = "weak" /\ err = "none" =>
           \A id \in ItemIds(arg) :
               \E n \in db.cwebase : n.kind = "weakness" /\ n.cwe_id = id
    /\ op = "cat" /\ err = "none" =>
           \A id \in ItemIds(arg) :
               \E n \in db.cwebase : n.kind = "category" /\ n.cwe_id = id

---------------------------------------------------------------------------
(* Cvss.calculate_base_severity on every base score *)

\* SeverityType
SeverityType == {"info", "low", "medium", "high", "critical"}

InitSeverity ==
    /\ db = EmptyDb /\ before = EmptyDb /\ op = "none" /\ arg = << >>
    /\ err = "none" /\ warn = << >> /\ mem = NoMem /\ runs = 0 /\ rep = FALSE
    /\ origin = NoRun
    /\ probe \in {[fn |-> "calculate_base_severity", value |-> value,
                   done |-> FALSE, severity |-> Null, below |-> Null] :
                     value \in 0..MaxScore}

\* the severity of the score, and of the score one tenth below it
CalculateBaseSeverity ==
    /\ ~probe.done
    /\ probe' = [probe EXCEPT
           !.done = TRUE,
           !.severity = calculate_base_severity(probe.value),
           !.below = IF probe.value = 0 THEN Null
                     ELSE calculate_base_severity(probe.value - 1)]
    /\ UNCHANGED <<db, before, op, arg, err, warn, mem, runs, rep, origin>>

SpecSeverity == InitSeverity /\ [][CalculateBaseSeverity]_vars

\* C20: calculate_base_severity gives null for the score 0, low below 4.0,
\* medium from 4.0 and below 7.0, high from 7.0 and below 9.0, critical from
\* 9.0; between two positive scores a tenth apart the severity changes at
\* 4.0, 7.0 and 9.0 and nowhere else; info is never returned.
C20_SeverityBrackets ==
    probe.done =>
        LET s == probe.value IN
        /\ probe.severity \in (SeverityType \ {"info"}) \cup {Null}
        /\ (probe.severity = Null) <=> (s = 0)
        /\ (probe.severity = "low") <=> (0 < s /\ s < 40)
        /\ (probe.severity = "medium") <=> (40 <= s /\ s < 70)
        /\ (probe.severity = "high") <=> (70 <= s /\ s < 90)
        /\ (probe.severity = "critical") <=> (90 <= s)
        /\ s > 1 => ((probe.severity # probe.below) <=> (s \in {40, 70, 90}))

\* the scores 8.9 and 9.0: high and critical
C20_Witness ==
    /\ probe.done /\ probe.value = 90
    /\ probe.severity = "critical" /\ probe.below = "high"

---------------------------------------------------------------------------
(* Properties of Cvss.create_cvss3 on the vectors of the calls *)

\* f"CVSS:3.1/{vector}" as a JSON string
Prefixed(vector) == JStr(<<"CVSS:3.1">> \o vector.v)

\* the vectors that are written with a CVSS:3 version in front, in any case
Versioned(vector) ==
    /\ Truthy(vector)
    /\ vector.v[1] \in {"CVSS:3.0", "CVSS:3.1", "cvss:3.0", "cvss:3.1"}

\* C21: create_cvss3 gives null for an empty or absent vector, keeps a vector
\* that begins with CVSS:3 verbatim and puts CVSS:3.1/ before any other; a
\* bare vector and its prefixed form give the same object and the same row,
\* and the base_vector of an object normalizes to itself.
C21_NormalizationIdempotent ==
    probe.calls > 0 =>
        LET vector == probe.vector
            made == create_cvss3(vector)
        IN  /\ ~Truthy(vector) => made = Return(Nothing) /\ probe.result = Nothing
            /\ (Versioned(vector) /\ made.err = "none") =>
                   The(made.val).base_vector = vector.v
            /\ (Truthy(vector) /\ ~Versioned(vector)) =>
                   /\ create_cvss3(Prefixed(vector)) = made
                   /\ made.err = "none" =>
                          /\ The(made.val).base_vector = Prefixed(vector).v
                          /\ probe.err = "none"
                          /\ The(probe.result).base_vector = Prefixed(vector).v
            /\ (made.err = "none" /\ made.val # Nothing) =>
                   create_cvss3(JStr(The(made.val).base_vector)) = made

\* a bare vector met the row of its prefixed form and got it back
C21_Witness ==
    /\ probe.calls > 0 /\ probe.vector = BareVector(MetricsHigh)
    /\ probe.err = "none"
    /\ \E r \in probe.prior.cvss :
           /\ r.base_vector = Vector31(MetricsHigh).v
           /\ probe.result = Some(CvssId(r))
    /\ Cardinality(probe.d.cvss) = Cardinality(probe.prior.cvss)

---------------------------------------------------------------------------
(* Properties of the leaves of import_vrt_categories *)

\* the VRT document of a run that returned
Imported ==
    VrtRun /\ err = "none" /\ "content" \in DOMAIN VrtArg.vrt_file

\* C22: an import that returns leaves exactly one Vrt row for each terminal
\* node of the tree, with the key and the priority of LeafPaths, and creates
\* no row with any other key (none for a category that has sub-categories,
\* none for a sub-category that has variants).
C22_OneLeafPerTerminal ==
    Imported =>
        /\ \A leaf \in LeafPaths(VrtArg.vrt_file.content) :
               Cardinality({l \in db.vrt : LeafKey(l) = LeafKey(leaf)}) = 1
        /\ \A l \in db.vrt \ before.vrt :
               \E leaf \in LeafPaths(VrtArg.vrt_file.content) :
                   LeafKey(l) = LeafKey(leaf)

---------------------------------------------------------------------------
(* Properties of the edges of the CWE imports *)

\* the edges of d from a weakness with a cwe_id to a view with a cwe_id
ViewEdges(d, weakness, view) ==
    {e \in d.cwerelationship :
        /\ e.source.kind = "weakness" /\ e.source.cwe_id = weakness
        /\ e.destination.kind = "view" /\ e.destination.cwe_id = view}

\* the pairs <<weakness, view>> that the files of a weakness import list
Listed(files) ==
    UNION {{<<files[i].Weaknesses[j].ID, files[i].Name.cwe>> :
               j \in 1..Len(files[i].Weaknesses)} : i \in 1..Len(files)}

\* the listed pairs whose weakness the database held without that edge
Unlinked(d, files) ==
    {pair \in Listed(files) :
        /\ \E n \in d.cwebase : n.kind = "weakness" /\ n.cwe_id = pair[1]
        /\ ViewEdges(d, pair[1], pair[2]) = {}}

\* C23: a weakness import that returns leaves every listed weakness with
\* exactly one edge, member_of_primary, to the view of its file: created for
\* a known weakness exactly when the edge was missing, whether or not the
\* weakness existed.
C23_EdgeRepaired ==
    (op = "weak" /\ err = "none") =>
        \A pair \in Listed(arg) :
            /\ Cardinality(ViewEdges(db, pair[1], pair[2])) = 1
            /\ \A e \in ViewEdges(db, pair[1], pair[2]) :
                   /\ e.nature = "member_of_primary"
                   /\ (e \in before.cwerelationship)
                          <=> (pair \notin Unlinked(before, arg)
                                 /\ \E n \in before.cwebase :
                                        n.kind = "weakness" /\ n.cwe_id = pair[1])

\* weakness 89 was known without an edge to software development (699),
\* and the run added the edge and no node
C23_Witness ==
    /\ op = "weak" /\ err = "none" /\ <<89, 699>> \in Unlinked(before, arg)
    /\ Cardinality(ViewEdges(db, 89, 699)) = 1
    /\ db.cwebase = before.cwebase

\* the nodes and the edges that the last run added
CreatedNodes == db.cwebase \ before.cwebase
CreatedEdges == db.cwerelationship \ before.cwerelationship

\* an edge as its nature and the kinds and cwe_ids of its ends
Shape(e) ==
    <<e.nature, e.source.kind, e.source.cwe_id,
      e.destination.kind, e.destination.cwe_id>>

\* C24: a category import that returns creates, for each entry without a
\* Category before the run, the Category node, one member_of_primary edge
\* from it to the view of the file and one belongs_to edge from each listed
\* weakness to it, and nothing else; the child is the source of every edge.
C24_CategoryCreated ==
    (op = "cat" /\ err = "none") =>
        /\ \A n \in CreatedNodes : n.kind = "category"
        /\ \A i \in 1..Len(arg) : \A j \in 1..Len(arg[i].Categories) :
               LET item == arg[i].Categories[j]
                   members == {item.Relationships[k] :
                                  k \in 1..Len(item.Relationships)}
               IN  CategoriesAt(before, item.ID) = {} =>
                       /\ \E n \in CreatedNodes : n.cwe_id = item.ID
                       /\ \A n \in CreatedNodes :
                              n.cwe_id = item.ID =>
                                  /\ {Shape(e) : e \in EdgesAt(db, {n})}
                                       = {<<"member_of_primary", "category",
                                            item.ID, "view", arg[i].Name.cwe>>}
                                         \cup {<<"belongs_to", "weakness", m,
                                                 "category", item.ID>> :
                                                   m \in members}
                                  /\ Cardinality(EdgesAt(db, {n}))
                                       = 1 + Len(item.Relationships)
        /\ \A e \in CreatedEdges :
               /\ \E n \in CreatedNodes :
                      NodeId(n) \in {e.source, e.destination}
               /\ <<e.source.kind, e.destination.kind>>
                      \in {<<"category", "view">>, <<"weakness", "category">>}

\* category 100 created with its edge to view 699 and its two members
C24_Witness ==
    /\ op = "cat" /\ err = "none"
    /\ \E n \in CreatedNodes :
           /\ n.cwe_id = 100
           /\ {Shape(e) : e \in CreatedEdges}
                = {<<"member_of_primary", "category", 100, "view", 699>>,
                   <<"belongs_to", "weakness", 79, "category", 100>>,
                   <<"belongs_to", "weakness", 89, "category", 100>>}

\* the enum member that the usage text of a catalog entry stands for
UsageMember(text) ==
    CASE text = "Allowed" -> "allowed"
      [] text = "Prohibited" -> "prohibited"
      [] text = "Discouraged" -> "discouraged"
      [] text = "Allowed-with-Review" -> "allowed_with_review"

\* the entries of the files of a CWE import, weaknesses or categories
UsageEntries ==
    UNION {{entry : entry \in
               {(IF op = "weak" THEN arg[i].Weaknesses ELSE arg[i].Categories)[j] :
                   j \in 1..Len(IF op = "weak" THEN arg[i].Weaknesses
                                ELSE arg[i].Categories)}} :
           i \in 1..Len(arg)}

\* C25: for weaknesses and for categories the usage text resolves to its
\* member of CweVulnerabilityMappingType: no CWE import raises KeyError on
\* the texts Allowed, Prohibited, Discouraged and Allowed-with-Review, and
\* a node that a run creates has the member of its entry's text as mapping.
C25_UsageResolves ==
    op \in {"weak", "cat"} =>
        /\ err # "KeyError"
        /\ err = "none" =>
               \A n \in CreatedNodes :
                   n.kind \in {"weakness", "category"} =>
                       \E entry \in UsageEntries :
                           /\ entry.ID = n.cwe_id
                           /\ n.mapping = UsageMember(entry.Usage)

---------------------------------------------------------------------------
(* Properties of get_vrt_mapping on side files that lack the requested node *)

\* what category.get(key) is for the one entry of the category
CategoryValue ==
    IF probe.shape.category = "a" THEN JNull
    ELSE Holding(probe.shape, "category", probe.shape.category)

\* the value of the one entry of the sub-category if it is set, else the
\* category's
SubCategoryResolved ==
    IF probe.shape.sub_category = "v"
    THEN LevelValue(probe.shape.key, "sub_category")
    ELSE CategoryValue

\* the side file has one entry of the category and none of the requested
\* sub-category below it
SubCategoryLacking ==
    /\ probe.request.sub_category # Null /\ probe.shape.categories = 1
    /\ ~probe.shape.category_children \/ probe.shape.sub_categories = 0

\* it has one entry of the sub-category and none of the requested variant
VariantLacking ==
    /\ probe.request.variant # Null /\ SubCategoryOnChain
    /\ ~probe.shape.sub_category_children \/ probe.shape.variants = 0

---------------------------------------------------------------------------
(* Properties of the commit of each import *)

\* the session of the last import at its end or at the statement that raised
Worked ==
    IF op = "vrt" THEN import_vrt_session(before, arg) ELSE Processed(arg)

\* C27: each of import_cwe_weaknesses, import_cwe_categories and
\* import_vrt_categories commits once, at its end: when it raises the
\* database is what it was before the call, whatever the session had seeded
\* or flushed; when it returns the database is the session's.
C27_CommitsOnceAtEnd ==
    op \in {"weak", "cat", "vrt"} =>
        /\ err # "none" => db = before
        /\ err = "none" => db = flush(Worked).d

\* a weakness import that had seeded the views and flushed weaknesses when a
\* later file raised
C27_Witness ==
    /\ op = "weak" /\ err = "ValueError" /\ before.cwebase = {}
    /\ \E n \in Worked.d.cwebase : n.kind = "view"
    /\ \E n \in Worked.d.cwebase : n.kind = "weakness"
    /\ db = before

---------------------------------------------------------------------------
(* Properties of the rows that an import finds *)

\* the rows of a database by their primary keys, and its edges and links
Identities(d) ==
    [vrtcategory |-> {r.vrt_id : r \in d.vrtcategory},
     vrtsubcategory |-> {r.vrt_id : r \in d.vrtsubcategory},
     vrtvariant |-> {r.vrt_id : r \in d.vrtvariant},
     vrt |-> {LeafId(l) : l \in d.vrt},
     cvss |-> {CvssId(c) : c \in d.cvss},
     cwebase |-> {NodeId(n) : n \in d.cwebase},
     cwerelationship |-> d.cwerelationship,
     vrtcwemapping |-> d.vrtcwemapping]

\* the links of a leaf
LinksOf(d, l) == {m \in d.vrtcwemapping : m.vrt_id = LeafId(l)}

\* the keys of the leaves that the tree of the last run produces
ProducedKeys ==
    IF VrtRun /\ "content" \in DOMAIN VrtArg.vrt_file
    THEN {LeafKey(leaf) : leaf \in LeafPaths(VrtArg.vrt_file.content)}
    ELSE {}

\* C28: an import that returns keeps every row, edge and link it found; a
\* leaf whose key the tree does not produce keeps its cvss reference and
\* its links, and every key the tree produces has its leaf, so that a
\* changed priority adds a leaf and leaves the old one.
C28_AppendOnly ==
    (op # "none" /\ err = "none") =>
        /\ \A table \in DOMAIN Identities(before) :
               Identities(before)[table] \subseteq Identities(db)[table]
        /\ \A l \in before.vrt :
               LeafKey(l) \notin ProducedKeys =>
                   l \in db.vrt /\ LinksOf(db, l) = LinksOf(before, l)
        /\ \A key \in ProducedKeys : \E l \in db.vrt : LeafKey(l) = key

---------------------------------------------------------------------------
(* Properties of the rows of the VRT nodes *)

\* the children of the nodes of a sequence, in the order of the document
RECURSIVE ChildrenOf(_)
ChildrenOf(nodes) ==
    IF nodes = << >> THEN << >>
    ELSE Head(nodes).children \o ChildrenOf(Tail(nodes))

\* the nodes of the tree of the last run that a table gets its rows from, in
\* the order the import meets them
NodesFor(table) ==
    CASE table = "vrtcategory" -> VrtArg.vrt_file.content
      [] table = "vrtsubcategory" -> ChildrenOf(VrtArg.vrt_file.content)
      [] table = "vrtvariant" -> ChildrenOf(ChildrenOf(VrtArg.vrt_file.content))

\* the positions of the nodes with a vrt_id
Places(nodes, vrt_id) == {i \in 1..Len(nodes) : nodes[i].vrt_id = vrt_id}

Greatest(places) == CHOOSE i \in places : \A j \in places : j <= i

\* C29: after an import that returns, each of vrtcategory, vrtsubcategory
\* and vrtvariant holds at most one row per vrt_id; the nodes of the tree
\* with one id, whatever their parents, have one row, and its name is the
\* name of the last of them in the document.
C29_OneRowPerVrtId ==
    Imported =>
        \A table \in {"vrtcategory", "vrtsubcategory", "vrtvariant"} :
            /\ \A a, b \in db[table] : a.vrt_id = b.vrt_id => a = b
            /\ \A i \in 1..Len(NodesFor(table)) :
                   LET nodes == NodesFor(table)
                       last == Greatest(Places(nodes, nodes[i].vrt_id))
                   IN  \E r \in db[table] :
                           /\ r.vrt_id = nodes[i].vrt_id
                           /\ r.name = nodes[last].name

\* sub-category s1 under c2 and under c3, and variant v1 under s2 and s1, in
\* two runs: one row each, with the name of the later node
C29_Witness ==
    /\ Imported /\ op = "vrt"
    /\ Cardinality(Places(NodesFor("vrtvariant"), "v1")) = 2
    /\ {r.name : r \in db.vrtvariant} = {<<"Variant 1", 1>>}
    /\ {<<"c2", "s1">>, <<"c3", "s1">>}
           \subseteq {<<l.category, l.sub_category>> : l \in db.vrt}
    /\ {r.name : r \in db.vrtsubcategory} = {<<"Sub 1", 0>>, <<"Sub 2", 0>>}

---------------------------------------------------------------------------
(* import_vrt_categories before and after import_cwe_weaknesses *)

\* the base side files with a tree whose sub-category leaf has any priority
RepairSources ==
    {VrtSources(Document(Taxonomy(Nothing, p, Nothing, 0)), BaseCvssFile,
                BaseCweFile) : p \in Priorities}

\* the catalog with the weaknesses 79 and 89, and the one with 79 alone
RepairCatalogs ==
    {BaseWeaknessFiles, WeaknessFiles(<<79>>, ViewHeader(1194), <<79>>, 0)}

\* one call of name on files, with result r
Step(name, files, r) ==
    /\ runs < MaxSteps
    /\ db' = r.db /\ before' = db /\ op' = name /\ arg' = files
    /\ err' = r.err /\ warn' = r.warn /\ mem' = r.mem
    /\ runs' = runs + 1
    /\ rep' = (op = name /\ arg = files)
    /\ UNCHANGED <<origin, probe>>

StepVrtCategories ==
    \E files \in RepairSources :
        \E r \in {import_vrt_categories(db, files)} : Step("vrt", files, r)

StepCweWeaknesses ==
    \E files \in RepairCatalogs :
        \E r \in {import_cwe_weaknesses(db, files)} : Step("weak", files, r)

NextRepair == StepVrtCategories \/ StepCweWeaknesses

SpecRepair == Init /\ [][NextRepair]_vars

\* the leaves of a database at a place of the taxonomy
LeavesAt(d, place) ==
    {l \in d.vrt : <<l.category, l.sub_category, l.variant>> = place}

\* the links that the files ask for and the database before the run lacks,
\* for leaves that it holds with the key of the tree
Repairable ==
    {t \in TokenLinks(before, arg) \ PlacedLinks(before) :
        \E l \in LeavesAt(before, <<t[1], t[2], t[3]>>) :
            LeafKey(l) \in ProducedKeys}

\* C30: when a leaf exists without the link to a weakness that its resolved
\* CWE list names and that exists exactly once, the next
\* import_vrt_categories run returns and links the weakness to that leaf,
\* and creates no leaf at its place.
C30_LinkRepaired ==
    (op = "vrt" /\ Repairable # {}) =>
        /\ err = "none"
        /\ \A t \in Repairable :
               /\ {LeafId(l) : l \in LeavesAt(db, <<t[1], t[2], t[3]>>)}
                    = {LeafId(l) : l \in LeavesAt(before, <<t[1], t[2], t[3]>>)}
               /\ \E l \in LeavesAt(before, <<t[1], t[2], t[3]>>) :
                      [cwe_base_id |-> t[4], vrt_id |-> LeafId(l)]
                          \in db.vrtcwemapping

====
